---- MODULE Spec2Model ----
(***************************************************************************)
(* Model of the prompt vault: the storage backends (S3Backend and the      *)
(* filesystem backend), the Reference they return, the AES-GCM Envelope,   *)
(* the promptvaultctl retrieval tool and the vaultProcessor that offloads  *)
(* span attributes through them.                                           *)
(*                                                                         *)
(* Go strings and []byte are sequences of bytes (numbers 0..255); a text   *)
(* literal of the source is written as the tuple of its ASCII codes.       *)
(***************************************************************************)
EXTENDS Naturals, Integers, Sequences, FiniteSets, TLC

\* ------------------------------------------------------------------ bounds

\* number of Store calls in one behaviour of Spec
MaxOps == 2

\* ------------------------------------------------------- bytes and strings

\* "/"
Slash == <<47>>

\* "promptvault://s3/"
S3Prefix ==
  <<112, 114, 111, 109, 112, 116, 118, 97, 117, 108, 116, 58, 47, 47, 115, 51, 47>>

\* "promptvault://fs/"
FsPrefix ==
  <<112, 114, 111, 109, 112, 116, 118, 97, 117, 108, 116, 58, 47, 47, 102, 115, 47>>

\* "0123456789abcdef"
HexDigits ==
  <<48, 49, 50, 51, 52, 53, 54, 55, 56, 57, 97, 98, 99, 100, 101, 102>>

\* F of the value of v, which is computed once, as a local variable of the
\* code is
Once(v, F(_)) == CHOOSE r \in {F(x) : x \in {v}} : TRUE

HasPrefix(s, p) ==
  /\ Len(s) >= Len(p)
  /\ SubSeq(s, 1, Len(p)) = p

\* s[n:] of Go, for n <= len(s)
DropFirst(s, n) == SubSeq(s, n + 1, Len(s))

\* hex.EncodeToString: two lowercase hex digits per byte, high nibble first
HexEncodeToString(b) ==
  [i \in 1..(2 * Len(b)) |->
     IF i % 2 = 1 THEN HexDigits[(b[(i + 1) \div 2] \div 16) + 1]
     ELSE HexDigits[(b[i \div 2] % 16) + 1]]

\* sha256.Size
DigestSize == 32

\* sha256.Sum256: a 32-byte digest.  SHA-256 is modelled by a digest that is
\* collision-free on every input the model produces (inputs of at most
\* DigestSize - 1 bytes): the input's length, the input, zero padding.
Sum256(data) ==
  <<Len(data)>> \o data \o [i \in 1..(DigestSize - 1 - Len(data)) |-> 0]

\* hash := sha256.Sum256(data); checksum := hex.EncodeToString(hash[:])
ChecksumOf(data) == HexEncodeToString(Sum256(data))

\* ---------------------------------------------------------------- Reference

Reference(uri, checksum, encrypted, size) ==
  [uri |-> uri, checksum |-> checksum, encrypted |-> encrypted, size |-> size]

\* Reference{}
ZeroReference == Reference(<<>>, <<>>, FALSE, 0)

\* ---------------------------------------------------------------- Envelope

\* gcm.NonceSize(): the standard GCM nonce, in bytes
NonceSize == 12

\* the GCM authentication tag gcm.Seal appends, in bytes
TagSize == 16

\* the key lengths aes.NewCipher accepts
AESKeySizes == {16, 24, 32}

RECURSIVE SumBytes(_)
SumBytes(b) == IF b = <<>> THEN 0 ELSE Head(b) + SumBytes(Tail(b))

\* the i-th byte of the key stream of key and nonce
KeyStream(key, nonce, i) ==
  (key[((i - 1) % Len(key)) + 1] + nonce[((i - 1) % Len(nonce)) + 1] + i) % 256

\* The authentication tag of ciphertext ct under key and nonce.  GCM's tag is
\* modelled by one that differs whenever the key sum, the nonce sum or the
\* ciphertext differ (ciphertexts of at most TagSize - 3 bytes).
Tag(key, nonce, ct) ==
  <<SumBytes(key) % 256, SumBytes(nonce) % 256, Len(ct)>> \o ct
    \o [i \in 1..(TagSize - 3 - Len(ct)) |-> 0]

\* Seal leaving the tag off
Seal_NoTag(key, dst, nonce, plaintext) ==
  dst \o [i \in 1..Len(plaintext) |->
            (plaintext[i] + KeyStream(key, nonce, i)) % 256]

\* gcm.Seal(dst, nonce, plaintext, nil): dst, then the encrypted plaintext,
\* then the tag
Seal(key, dst, nonce, plaintext) ==
  LET ct == [i \in 1..Len(plaintext) |->
               (plaintext[i] + KeyStream(key, nonce, i)) % 256]
  IN  dst \o ct \o Tag(key, nonce, ct)

\* Open decrypting whatever it is given, the tag never compared
Open_Unauthenticated(key, nonce, sealed) ==
  LET n == IF Len(sealed) < TagSize THEN 0 ELSE Len(sealed) - TagSize
  IN  [out |-> [i \in 1..n |-> (sealed[i] + 256 - KeyStream(key, nonce, i)) % 256],
       err |-> ""]

\* gcm.Open(nil, nonce, ciphertext, nil): the plaintext, or an error when the
\* input is shorter than a tag or the tag does not authenticate it
Open(key, nonce, sealed) ==
  IF Len(sealed) < TagSize THEN [out |-> <<>>, err |-> "auth"]
  ELSE LET ct == SubSeq(sealed, 1, Len(sealed) - TagSize)
           tag == SubSeq(sealed, Len(sealed) - TagSize + 1, Len(sealed))
       IN  IF tag # Tag(key, nonce, ct) THEN [out |-> <<>>, err |-> "auth"]
           ELSE [out |-> [i \in 1..Len(ct) |->
                            (ct[i] + 256 - KeyStream(key, nonce, i)) % 256],
                 err |-> ""]

\* Envelope.Encrypt without the nonce in front of the ciphertext
Envelope_Encrypt_NoNonce(e, plaintext, nonce) ==
  IF Len(e.key) \notin AESKeySizes THEN [out |-> <<>>, err |-> "cipher"]
  ELSE IF Len(nonce) < NonceSize THEN [out |-> <<>>, err |-> "nonce"]
  ELSE [out |-> Seal(e.key, <<>>, nonce, plaintext), err |-> ""]

\* Envelope.Encrypt, nonce being what rand.Reader delivered: an error when
\* io.ReadFull could not fill the nonce, else the nonce, then what Seal
\* appends to it
Envelope_Encrypt(e, plaintext, nonce) ==
  IF Len(e.key) \notin AESKeySizes THEN [out |-> <<>>, err |-> "cipher"]
  ELSE IF Len(nonce) < NonceSize THEN [out |-> <<>>, err |-> "nonce"]
  ELSE [out |-> Seal(e.key, nonce, nonce, plaintext), err |-> ""]

\* Envelope.Decrypt: the first NonceSize bytes are the nonce, the rest is
\* opened with it
Envelope_Decrypt(e, ciphertext) ==
  IF Len(e.key) \notin AESKeySizes THEN [out |-> <<>>, err |-> "cipher"]
  ELSE IF Len(ciphertext) < NonceSize THEN [out |-> <<>>, err |-> "short"]
  ELSE LET opened == Open(e.key, SubSeq(ciphertext, 1, NonceSize),
                          DropFirst(ciphertext, NonceSize))
       IN  IF opened.err # "" THEN [out |-> <<>>, err |-> "decrypt"]
           ELSE [out |-> opened.out, err |-> ""]

\* a nil *crypto.Envelope
NoEnvelope == [key |-> <<>>, hmacSecret |-> <<>>]

\* the value of a hex digit, 16 for any other byte
HexVal(c) ==
  IF c >= 48 /\ c <= 57 THEN c - 48
  ELSE IF c >= 97 /\ c <= 102 THEN c - 87
  ELSE IF c >= 65 /\ c <= 70 THEN c - 55
  ELSE 16

\* hex.DecodeString: an error for an odd length or a byte that is no hex digit
HexDecodeString(s) ==
  IF Len(s) % 2 = 1 \/ \E i \in 1..Len(s) : HexVal(s[i]) = 16
    THEN [out |-> <<>>, err |-> "hex"]
    ELSE [out |-> [i \in 1..(Len(s) \div 2) |->
                     16 * HexVal(s[2 * i - 1]) + HexVal(s[2 * i])],
          err |-> ""]

\* NewEnvelope taking every key length AES has
NewEnvelope_AnyAESKey(hexKey, hmacSecret) ==
  LET key == HexDecodeString(hexKey)
  IN  IF key.err # "" THEN [env |-> NoEnvelope, err |-> "hex"]
      ELSE IF Len(key.out) \notin AESKeySizes THEN [env |-> NoEnvelope, err |-> "length"]
      ELSE [env |-> [key |-> key.out, hmacSecret |-> hmacSecret], err |-> ""]

\* NewEnvelope(hexKey, hmacSecret)
NewEnvelope(hexKey, hmacSecret) ==
  LET key == HexDecodeString(hexKey)
  IN  IF key.err # "" THEN [env |-> NoEnvelope, err |-> "hex"]
      ELSE IF Len(key.out) # 32 THEN [env |-> NoEnvelope, err |-> "length"]
      ELSE [env |-> [key |-> key.out, hmacSecret |-> hmacSecret], err |-> ""]

\* the block size of SHA-256, to which hmac.New pads the key
HmacBlockSize == 64

\* hmac.New(sha256.New, secret): the key block, the secret followed by zero
\* bytes up to the block size (the secrets of the model are shorter than a
\* block; a longer one would be hashed first)
HmacKeyBlock(secret) ==
  [i \in 1..HmacBlockSize |-> IF i <= Len(secret) THEN secret[i] ELSE 0]

\* the bytes of a key block up to its last byte that is not zero
BlockBytes(block) ==
  LET used == {i \in 1..Len(block) : block[i] # 0}
      n == IF used = {} THEN 0 ELSE CHOOSE i \in used : \A j \in used : j <= i
  IN  SubSeq(block, 1, n)

\* an HMAC over the first byte of the message only
HmacSum_FirstByte(secret, msg) ==
  LET k == BlockBytes(HmacKeyBlock(secret))
      m == SubSeq(msg, 1, IF Len(msg) > 0 THEN 1 ELSE 0)
  IN  <<Len(k), Len(m)>> \o k \o m
        \o [i \in 1..(DigestSize - 2 - Len(k) - Len(m)) |-> 0]

\* mac.Write(msg); mac.Sum(nil): HMAC-SHA256 of msg under the key block of
\* secret, modelled by a 32-byte value that differs whenever the key block or
\* the message differ (key bytes and message of at most DigestSize - 2 bytes
\* together)
HmacSum(secret, msg) ==
  LET k == BlockBytes(HmacKeyBlock(secret))
  IN  <<Len(k), Len(msg)>> \o k \o msg
        \o [i \in 1..(DigestSize - 2 - Len(k) - Len(msg)) |-> 0]

\* SignMetadata with no secret in it: the plain SHA-256 of the text
Envelope_SignMetadata_Unkeyed(e, metadata) ==
  HexEncodeToString(Sum256(metadata))

\* Envelope.SignMetadata
Envelope_SignMetadata(e, metadata) ==
  HexEncodeToString(HmacSum(e.hmacSecret, metadata))

\* Envelope.VerifyMetadata: hmac.Equal of the expected and the given signature
Envelope_VerifyMetadata(e, metadata, signature) ==
  Envelope_SignMetadata(e, metadata) = signature

\* the 32-byte keys of the model
Key1 == [i \in 1..32 |-> i]
Key2 == [i \in 1..32 |-> (7 * i) % 256]

\* "secret"
HmacSecret == <<115, 101, 99, 114, 101, 116>>

\* the envelopes NewEnvelope returns for the model's keys
Envelopes == {[key |-> k, hmacSecret |-> HmacSecret] : k \in {Key1, Key2}}

\* "other"
OtherSecret == <<111, 116, 104, 101, 114>>

\* the envelopes that verify signatures and decrypt blobs made by another one:
\* the same and the other key, with the same secret, with another secret and
\* with the same secret followed by a zero byte
Verifiers ==
  Envelopes
    \cup {[key |-> k, hmacSecret |-> OtherSecret] : k \in {Key1, Key2}}
    \cup {[key |-> Key1, hmacSecret |-> HmacSecret \o <<0>>]}

\* the texts handed to SignMetadata: "", "a", "ab", "{}"
Texts == {<<>>, <<97>>, <<97, 98>>, <<123, 125>>}

\* what is appended to a text after it was signed: nothing, "b", a zero byte,
\* "}}"
Suffixes == {<<>>, <<98>>, <<0>>, <<125, 125>>}

\* the nonces rand.Reader delivers in the model
Nonces == {[i \in 1..NonceSize |-> 0], [i \in 1..NonceSize |-> 16 + i],
           [i \in 1..NonceSize |-> 255]}

\* the plaintexts handed to Encrypt
Plaintexts ==
  {<<>>, <<0>>, <<7>>, <<8>>, <<255>>, <<0, 0>>, <<7, 8>>, <<255, 0>>, <<1, 2, 3>>}

\* -------------------------------------------------------------- net/http

\* url.Parse, called by http.NewRequestWithContext, rejects a URL that holds
\* an ASCII control character (a byte below 0x20, or 0x7f)
InvalidURL(url) == \E i \in 1..Len(url) : url[i] < 32 \/ url[i] = 127

\* index of the first '#' of url, or Len(url) + 1
RECURSIVE FragmentAt(_, _)
FragmentAt(url, i) ==
  IF i > Len(url) THEN i
  ELSE IF url[i] = 35 THEN i
  ELSE FragmentAt(url, i + 1)

\* The object a request for url addresses.  url.Parse cuts the URL at the
\* first '#': the fragment is never sent, so the request line carries only
\* what precedes it.
RequestTarget(url) == SubSeq(url, 1, FragmentAt(url, 1) - 1)

\* What s.client.Do(req) can come back with for a PUT: a response with a
\* status, or an error (timeout of the 30 s client, cancelled context, no
\* connection).  A 2xx response means the object was written; a request that
\* timed out may or may not have been applied.
PutStatuses == {200, 299, 300, 503}

PutOutcomes ==
  {[err |-> "", status |-> st, applied |-> (st < 300)] : st \in PutStatuses}
    \cup {[err |-> "timeout", status |-> 0, applied |-> a] : a \in BOOLEAN}
    \cup {[err |-> e, status |-> 0, applied |-> FALSE] : e \in {"canceled", "refused"}}

\* What s.client.Do(req) can come back with for a GET of target: the object
\* last PUT there (or 404 when there is none), a server error, an error of
\* the round trip, or a body that fails while it is read.
GetOutcomes(objects, target) ==
  (IF target \in DOMAIN objects
     THEN {[err |-> "", status |-> 200, body |-> objects[target], readErr |-> r] :
             r \in BOOLEAN}
     ELSE {[err |-> "", status |-> 404, body |-> <<>>, readErr |-> FALSE]})
    \cup {[err |-> "", status |-> 500, body |-> <<>>, readErr |-> FALSE]}
    \cup {[err |-> e, status |-> 0, body |-> <<>>, readErr |-> FALSE] :
            e \in {"timeout", "canceled", "refused"}}

\* ------------------------------------------------------------- S3Backend

\* "http" / "https"
Scheme(s) ==
  IF s.useSSL THEN <<104, 116, 116, 112, 115>> ELSE <<104, 116, 116, 112>>

\* "://"
SchemeSep == <<58, 47, 47>>

\* key := fmt.Sprintf("%s%s/%s/%s", s.prefix, traceID, spanID, attrKey)
S3Key(s, traceID, spanID, attrKey) ==
  s.prefix \o traceID \o Slash \o spanID \o Slash \o attrKey

\* url := fmt.Sprintf("%s://%s/%s/%s", scheme, s.endpoint, s.bucket, key)
S3StoreURL(s, traceID, spanID, attrKey) ==
  Scheme(s) \o SchemeSep \o s.endpoint \o Slash \o s.bucket \o Slash
    \o S3Key(s, traceID, spanID, attrKey)

\* fmt.Sprintf("promptvault://s3/%s/%s", s.bucket, key)
S3URI(s, traceID, spanID, attrKey) ==
  S3Prefix \o s.bucket \o Slash \o S3Key(s, traceID, spanID, attrKey)

\* StatusFails letting the 3xx statuses pass
StatusFails_From400(status) == status >= 400

\* the status test of Store and Retrieve: resp.StatusCode >= 300
StatusFails(status) == status >= 300

\* DoCalls sending the request again after an error or a failure status
DoCalls_Retrying(rt) == IF rt.err # "" \/ rt.status >= 300 THEN 2 ELSE 1

\* resp, err := s.client.Do(req): the request is sent once, whatever comes
\* back; there is no loop around it
DoCalls(rt) == 1

\* S3Backend.Store with the round trip ending as rt.  The result carries the
\* returned (Reference, error), the number of s.client.Do calls made and the
\* object store afterwards.
S3Backend_Store(s, objects, traceID, spanID, attrKey, data, rt) ==
  LET url == S3StoreURL(s, traceID, spanID, attrKey)
      target == RequestTarget(url)
      written == IF rt.applied THEN (target :> data) @@ objects ELSE objects
  IN  IF InvalidURL(url)
        THEN [ref |-> ZeroReference, err |-> "request", requests |-> 0,
              objects |-> objects, target |-> <<>>]
      ELSE IF rt.err # ""
        THEN [ref |-> ZeroReference, err |-> "transport", requests |-> DoCalls(rt),
              objects |-> written, target |-> target]
      ELSE IF StatusFails(rt.status)
        THEN [ref |-> ZeroReference, err |-> "status", requests |-> DoCalls(rt),
              objects |-> written, target |-> target]
      ELSE [ref |-> Reference(S3URI(s, traceID, spanID, attrKey),
                              ChecksumOf(data), FALSE, Len(data)),
            err |-> "", requests |-> DoCalls(rt), objects |-> written, target |-> target]

\* url := fmt.Sprintf("%s://%s/%s", scheme, s.endpoint, path) of Retrieve,
\* path := ref.URI[len("promptvault://s3/"):]
S3RetrieveURL(s, ref) ==
  Scheme(s) \o SchemeSep \o s.endpoint \o Slash \o DropFirst(ref.uri, Len(S3Prefix))

\* ChecksumMismatch with the comparison left out
ChecksumMismatch_Skipped(data, ref) == FALSE

\* the checksum test of Retrieve: checksum != ref.Checksum
ChecksumMismatch(data, ref) == ChecksumOf(data) # ref.checksum

\* S3Backend.Retrieve with the round trip ending as rt.  "read" is what
\* io.ReadAll returned (hasRead: it returned without error); a URI shorter
\* than the prefix makes the slice expression panic.
S3Backend_Retrieve(s, ref, rt) ==
  IF Len(ref.uri) < Len(S3Prefix)
    THEN [data |-> <<>>, err |-> "panic", requests |-> 0, hasRead |-> FALSE,
          read |-> <<>>]
  ELSE IF InvalidURL(S3RetrieveURL(s, ref))
    THEN [data |-> <<>>, err |-> "request", requests |-> 0, hasRead |-> FALSE,
          read |-> <<>>]
  ELSE IF rt.err # ""
    THEN [data |-> <<>>, err |-> "transport", requests |-> DoCalls(rt), hasRead |-> FALSE,
          read |-> <<>>]
  ELSE IF StatusFails(rt.status)
    THEN [data |-> <<>>, err |-> "status", requests |-> DoCalls(rt), hasRead |-> FALSE,
          read |-> <<>>]
  ELSE IF rt.readErr
    THEN [data |-> <<>>, err |-> "read", requests |-> DoCalls(rt), hasRead |-> FALSE,
          read |-> <<>>]
  ELSE IF ChecksumMismatch(rt.body, ref)
    THEN [data |-> <<>>, err |-> "checksum", requests |-> DoCalls(rt), hasRead |-> TRUE,
          read |-> rt.body]
  ELSE [data |-> rt.body, err |-> "", requests |-> DoCalls(rt), hasRead |-> TRUE,
        read |-> rt.body]

\* The idle connections the http.Client keeps after a call: a round trip that
\* was answered and whose body was read or closed leaves its connection in the
\* pool; one that failed, or whose body could not be read, drops it.
IdleAfter(idle, r, rtErr) ==
  IF r.requests = 0 THEN idle
  ELSE IF rtErr = "" /\ r.err # "read" THEN 1
  ELSE 0

S3Backend_Close_Once(s, idle) ==
  [err |-> IF idle = 0 THEN "closed" ELSE "", requests |-> 0, idle |-> 0]

\* S3Backend.Close: the client's idle connections are closed; nil is returned
S3Backend_Close(s, idle) ==
  [err |-> "", requests |-> 0, idle |-> 0]

\* ----------------------------------------------------- FilesystemBackend

\* What reading the file at path can come back with: its content, no such
\* file, or an I/O error.
ReadOutcomes(files, path) ==
  (IF path \in DOMAIN files
     THEN {[err |-> "", body |-> files[path]]}
     ELSE {[err |-> "notfound", body |-> <<>>]})
    \cup {[err |-> "io", body |-> <<>>]}

\* {base}/{traceID}/{spanID}/{attrKey}
FsPath(base, traceID, spanID, attrKey) ==
  base \o Slash \o traceID \o Slash \o spanID \o Slash \o attrKey

\* promptvault://fs/{trace_id}/{span_id}/{attr_key}
FsURI(traceID, spanID, attrKey) ==
  FsPrefix \o traceID \o Slash \o spanID \o Slash \o attrKey

\* FilesystemBackend.Store: the write is all-or-nothing (io = "ok" or a
\* failure that leaves the file as it was).
FilesystemBackend_Store(base, files, traceID, spanID, attrKey, data, io) ==
  LET path == FsPath(base, traceID, spanID, attrKey)
  IN  IF io # "ok"
        THEN [ref |-> ZeroReference, err |-> "io", requests |-> 0,
              objects |-> files, target |-> <<>>]
      ELSE [ref |-> Reference(FsURI(traceID, spanID, attrKey),
                              ChecksumOf(data), FALSE, Len(data)),
            err |-> "", requests |-> 0,
            objects |-> (path :> data) @@ files, target |-> path]

\* One write of a Store in progress: the chunk goes into the Store's temporary
\* file; the file at path stays as it is until the rename.
FsWrite_InPlace(files, path, tmp, chunk) ==
  [files |-> (path :> (tmp \o chunk)) @@ files, tmp |-> tmp \o chunk]

FsWrite(files, path, tmp, chunk) ==
  [files |-> files, tmp |-> tmp \o chunk]

\* the file a filesystem Reference names: the URI without its prefix, under
\* the base directory
FsRetrievePath(base, ref) == base \o Slash \o DropFirst(ref.uri, Len(FsPrefix))

\* FilesystemBackend.Retrieve: resolves only a promptvault://fs/ URI, reads
\* the whole file and verifies the checksum before returning data.
FilesystemBackend_Retrieve(base, ref, rd) ==
  IF ~HasPrefix(ref.uri, FsPrefix)
    THEN [data |-> <<>>, err |-> "scheme", requests |-> 0, hasRead |-> FALSE,
          read |-> <<>>]
  ELSE IF rd.err # ""
    THEN [data |-> <<>>, err |-> rd.err, requests |-> 0, hasRead |-> FALSE,
          read |-> <<>>]
  ELSE IF ChecksumOf(rd.body) # ref.checksum
    THEN [data |-> <<>>, err |-> "checksum", requests |-> 0, hasRead |-> TRUE,
          read |-> rd.body]
  ELSE [data |-> rd.body, err |-> "", requests |-> 0, hasRead |-> TRUE,
        read |-> rd.body]

\* ------------------------------------------------------------ json, pdata

\* strconv-style decimal text of n >= 0
RECURSIVE Itoa(_)
Itoa(n) ==
  IF n < 10 THEN <<48 + n>> ELSE Itoa(n \div 10) \o <<48 + (n % 10)>>

\* encoding/json's text for one byte of a string: '"' and '\' get a
\* backslash, \n \r \t their short form, other control characters and
\* '<' '>' '&' the \u00xx form, a byte that is no valid UTF-8 the � form
JSONByte(c) ==
  IF c = 34 \/ c = 92 THEN <<92, c>>
  ELSE IF c = 10 THEN <<92, 110>>
  ELSE IF c = 13 THEN <<92, 114>>
  ELSE IF c = 9 THEN <<92, 116>>
  ELSE IF c < 32 \/ c = 60 \/ c = 62 \/ c = 38
    THEN <<92, 117, 48, 48, HexDigits[(c \div 16) + 1], HexDigits[(c % 16) + 1]>>
  ELSE IF c >= 128 THEN <<92, 117, 102, 102, 102, 100>>
  ELSE <<c>>

\* the texts of the bytes of s, one after the other
RECURSIVE JSONChars(_)
JSONChars(str) ==
  Once(str, LAMBDA s :
    IF s = <<>> THEN <<>>
    ELSE IF Len(s) = 1 THEN JSONByte(s[1])
    ELSE LET half == Len(s) \div 2
         IN  JSONChars(SubSeq(s, 1, half)) \o JSONChars(SubSeq(s, half + 1, Len(s))))

\* a Go string as a JSON string
JSONString(s) == <<34>> \o JSONChars(s) \o <<34>>

\* json.Marshal(ref) of a storage.Reference:
\* {"uri":"...","checksum":"...","encrypted":false,"size_bytes":0}
MarshalReference(ref) ==
  <<123, 34, 117, 114, 105, 34, 58>> \o JSONString(ref.uri)
    \o <<44, 34, 99, 104, 101, 99, 107, 115, 117, 109, 34, 58>>
    \o JSONString(ref.checksum)
    \o <<44, 34, 101, 110, 99, 114, 121, 112, 116, 101, 100, 34, 58>>
    \o (IF ref.encrypted THEN <<116, 114, 117, 101>> ELSE <<102, 97, 108, 115, 101>>)
    \o <<44, 34, 115, 105, 122, 101, 95, 98, 121, 116, 101, 115, 34, 58>>
    \o Itoa(ref.size) \o <<125>>

\* the number of backslashes that end at position j of the text s
RECURSIVE BackslashRun(_, _)
BackslashRun(s, j) ==
  IF j < 1 THEN 0
  ELSE IF s[j] # 92 THEN 0
  ELSE 1 + BackslashRun(s, j - 1)

\* position j of the string body s holds the backslash that starts an escape
EscapeAt(s, j) == s[j] = 92 /\ BackslashRun(s, j - 1) % 2 = 0

\* position j belongs to an escape that started before it: the character
\* after the backslash, or one of the four hex digits of a \u escape
InEscape(s, j) ==
  \/ j > 1 /\ EscapeAt(s, j - 1)
  \/ \E d \in 2..5 : j - d >= 1 /\ EscapeAt(s, j - d) /\ s[j - d + 1] = 117

\* the UTF-8 bytes of the code point v < 65536
UTF8(v) ==
  IF v < 128 THEN <<v>>
  ELSE IF v < 2048 THEN <<192 + (v \div 64), 128 + (v % 64)>>
  ELSE <<224 + (v \div 4096), 128 + ((v \div 64) % 64), 128 + (v % 64)>>

\* the bytes the character that starts at position j of a string body stands
\* for; nothing for a position inside an escape
CharAt(s, j) ==
  IF InEscape(s, j) THEN <<>>
  ELSE IF ~EscapeAt(s, j) THEN <<s[j]>>
  ELSE LET c == s[j + 1]
       IN  IF c = 110 THEN <<10>>
           ELSE IF c = 114 THEN <<13>>
           ELSE IF c = 116 THEN <<9>>
           ELSE IF c = 98 THEN <<8>>
           ELSE IF c = 102 THEN <<12>>
           ELSE IF c = 117
             THEN UTF8(4096 * HexVal(s[j + 2]) + 256 * HexVal(s[j + 3])
                         + 16 * HexVal(s[j + 4]) + HexVal(s[j + 5]))
           ELSE <<c>>

\* a string body encoding/json accepts: no control character, and after a
\* backslash one of " \ / b f n r t or u with four hex digits
ValidStringBody(s) ==
  \A j \in 1..Len(s) :
    /\ s[j] >= 32
    /\ EscapeAt(s, j) =>
         /\ j < Len(s)
         /\ s[j + 1] \in {34, 92, 47, 98, 102, 110, 114, 116, 117}
         /\ s[j + 1] = 117 =>
              (j + 5 <= Len(s) /\ \A d \in 2..5 : HexVal(s[j + d]) < 16)

\* f[lo] \o ... \o f[hi]
RECURSIVE Flat(_, _, _)
Flat(f, lo, hi) ==
  IF lo > hi THEN <<>>
  ELSE IF lo = hi THEN f[lo]
  ELSE LET mid == (lo + hi) \div 2
       IN  Flat(f, lo, mid) \o Flat(f, mid + 1, hi)

\* the Go string of a JSON string body
Unquote(body) ==
  Once(body, LAMBDA s :
    IF ValidStringBody(s)
      THEN [ok |-> TRUE,
            str |-> Once([j \in 1..Len(s) |-> CharAt(s, j)],
                         LAMBDA f : Flat(f, 1, Len(s)))]
      ELSE [ok |-> FALSE, str |-> <<>>])

\* the position of the quote that closes the string whose body starts at
\* position from of the text t, 0 when there is none
ClosingQuote(t, from) ==
  LET q == {j \in from..Len(t) : t[j] = 34 /\ BackslashRun(t, j - 1) % 2 = 0}
  IN  IF q = {} THEN 0 ELSE CHOOSE j \in q : \A k \in q : j <= k

\* the text t holds lit at position pos
Lit(t, pos, lit) ==
  pos + Len(lit) - 1 <= Len(t) /\ SubSeq(t, pos, pos + Len(lit) - 1) = lit

\* the value of a JSON number that fits an int field: digits without a
\* leading zero
RECURSIVE Atoi(_)
Atoi(d) ==
  IF d = <<>> THEN 0 ELSE 10 * Atoi(SubSeq(d, 1, Len(d) - 1)) + (d[Len(d)] - 48)

IsInt(d) ==
  /\ d # <<>>
  /\ \A i \in 1..Len(d) : d[i] >= 48 /\ d[i] <= 57
  /\ Len(d) > 1 => d[1] # 48

\* json.Unmarshal(text, &ref) for the texts the model hands to it, which are
\* texts json.Marshal wrote for a Reference and cuts of them: the four
\* members in Marshal's order, without white space.  Any other text is a
\* syntax error here.
UnmarshalReference(text) ==
  LET bad == [ok |-> FALSE, ref |-> ZeroReference]
      l1 == <<123, 34, 117, 114, 105, 34, 58, 34>>
      l2 == <<44, 34, 99, 104, 101, 99, 107, 115, 117, 109, 34, 58, 34>>
      l3 == <<44, 34, 101, 110, 99, 114, 121, 112, 116, 101, 100, 34, 58>>
      l4 == <<44, 34, 115, 105, 122, 101, 95, 98, 121, 116, 101, 115, 34, 58>>
      true == <<116, 114, 117, 101>>
      false == <<102, 97, 108, 115, 101>>
      p1 == Len(l1) + 1
  IN  Once(text, LAMBDA t :
      Once(ClosingQuote(t, p1), LAMBDA q1 :
      Once(ClosingQuote(t, q1 + 1 + Len(l2)), LAMBDA q2 :
        LET p2 == q1 + 1 + Len(l2)
            p3 == q2 + 1 + Len(l3)
            enc == Lit(t, p3, true)
            p4 == p3 + (IF enc THEN Len(true) ELSE Len(false)) + Len(l4)
            size == SubSeq(t, p4, Len(t) - 1)
        IN  IF ~Lit(t, 1, l1) \/ q1 = 0 THEN bad
            ELSE IF ~Lit(t, q1 + 1, l2) \/ q2 = 0 THEN bad
            ELSE IF ~Lit(t, q2 + 1, l3) THEN bad
            ELSE IF ~(enc \/ Lit(t, p3, false)) THEN bad
            ELSE IF ~Lit(t, p4 - Len(l4), l4) THEN bad
            ELSE IF t[Len(t)] # 125 \/ ~IsInt(size) THEN bad
            ELSE Once(Unquote(SubSeq(t, p1, q1 - 1)), LAMBDA uri :
                 Once(Unquote(SubSeq(t, p2, q2 - 1)), LAMBDA sum :
                   IF ~uri.ok \/ ~sum.ok THEN bad
                   ELSE [ok |-> TRUE,
                         ref |-> Reference(uri.str, sum.str, enc, Atoi(size))])))))

\* a string attribute value
StrValue(s) == [type |-> "str", str |-> s]

\* pcommon.Value.Str(): the string of a string value, "" of any other
Str(v) == IF v.type = "str" THEN v.str ELSE <<>>

\* pcommon.Map.PutStr(k, s): the value of k is replaced where k exists, the
\* pair is appended where it does not
PutStr(attrs, k, s) ==
  IF \E i \in 1..Len(attrs) : attrs[i].key = k
    THEN [i \in 1..Len(attrs) |->
            IF attrs[i].key = k THEN [key |-> k, val |-> StrValue(s)] ELSE attrs[i]]
    ELSE Append(attrs, [key |-> k, val |-> StrValue(s)])

\* pcommon.Map.Remove(k)
Remove(attrs, k) == SelectSeq(attrs, LAMBDA a : a.key # k)

\* pcommon.TraceID.String() and SpanID.String(): hex, "" for the empty id
IDString(id) ==
  IF \A i \in 1..Len(id) : id[i] = 0 THEN <<>> ELSE HexEncodeToString(id)

\* ".vault_ref"
VaultRefSuffix == <<46, 118, 97, 117, 108, 116, 95, 114, 101, 102>>

\* fmt.Sprintf("%s/event_%d/", spanID, i): what processSpanEvents puts before
\* the attribute key
EventKeyPrefix(spanID, i) ==
  spanID \o <<47, 101, 118, 101, 110, 116, 95>> \o Itoa(i) \o Slash

\* --------------------------------------------------------- vaultProcessor

\* Validate without the check of vault.keys
Config_Validate_AnyKeys(c) ==
  IF c.backend \notin {"filesystem", "s3"} THEN "backend"
  ELSE IF c.backend = "filesystem" /\ c.basePath = <<>> THEN "base_path"
  ELSE IF c.backend = "s3" /\ c.s3.bucket = <<>> THEN "bucket"
  ELSE IF c.mode \notin {"replace_with_ref", "drop", "keep_and_ref"} THEN "mode"
  ELSE IF c.crypto.enable /\ c.crypto.keySource \notin {"env", "static"}
    THEN "key_source"
  ELSE ""

\* Config.Validate: the first check that fails, "" for nil
Config_Validate(c) ==
  IF c.backend \notin {"filesystem", "s3"} THEN "backend"
  ELSE IF c.backend = "filesystem" /\ c.basePath = <<>> THEN "base_path"
  ELSE IF c.backend = "s3" /\ c.s3.bucket = <<>> THEN "bucket"
  ELSE IF c.mode \notin {"replace_with_ref", "drop", "keep_and_ref"} THEN "mode"
  ELSE IF Len(c.keys) = 0 THEN "keys"
  ELSE IF c.crypto.enable /\ c.crypto.keySource \notin {"env", "static"}
    THEN "key_source"
  ELSE ""

\* newProcessor(ctx, set, cfg, next): nil and the error when Validate fails,
\* else the processor with its key set
newProcessor(c) ==
  LET err == Config_Validate(c)
  IN  IF err # "" THEN [nil |-> TRUE, err |-> "invalid config", keySet |-> {}]
      ELSE [nil |-> FALSE, err |-> "",
            keySet |-> {c.keys[i] : i \in 1..Len(c.keys)}]

\* what the processor's Store calls can come back with in the model: success,
\* or a failure that wrote nothing
StoreOutcomes == {"ok", "fail"}

\* p.backend.Store(ctx, traceID, spanID, attrKey, data), by the backend that
\* Start set up
Backend_Store(p, objs, traceID, spanID, attrKey, data, outcome) ==
  IF p.kind = "s3"
    THEN S3Backend_Store(p.s3, objs, traceID, spanID, attrKey, data,
           IF outcome = "ok" THEN [err |-> "", status |-> 200, applied |-> TRUE]
           ELSE [err |-> "", status |-> 503, applied |-> FALSE])
    ELSE FilesystemBackend_Store(p.cfg.basePath, objs, traceID, spanID, attrKey,
                                 data, outcome)

\* FilesystemBackend.Close: nothing is held open; nil is returned
FilesystemBackend_Close(idle) ==
  [err |-> "", requests |-> 0, idle |-> idle]

\* p.backend.Close()
Backend_Close(p, idle) ==
  IF p.kind = "s3" THEN S3Backend_Close(p.s3, idle)
  ELSE FilesystemBackend_Close(idle)

\* vaultProcessor.Shutdown: the backend's Close result, or nil when p.backend
\* is nil
vaultProcessor_Shutdown(p, idle) ==
  IF p.kind # "none"
    THEN LET r == Backend_Close(p, idle)
         IN  [closed |-> TRUE, closeErr |-> r.err, err |-> r.err,
              requests |-> r.requests, idle |-> r.idle]
    ELSE [closed |-> FALSE, closeErr |-> "", err |-> "", requests |-> 0,
          idle |-> idle]

\* ---------------------------------------------------------- promptvaultctl

\* "/tmp/promptvault": the base path of `promptvaultctl get <vault-ref-json>`
DefaultBasePath ==
  <<47, 116, 109, 112, 47, 112, 114, 111, 109, 112, 116, 118, 97, 117, 108, 116>>

\* what reading the file at path comes back with, given whether the disk
\* fails
ReadFile(files, path, io) ==
  CHOOSE o \in ReadOutcomes(files, path) : (o.err = "io") = (io = "io")

\* runGet printing what Retrieve returned, encrypted or not
runGet_NeverDecrypts(args, hexKey, hmacSecret, files, mk, io) ==
  LET basePath == IF Len(args) = 1 THEN DefaultBasePath ELSE args[1]
      parsed == UnmarshalReference(args[Len(args)])
      got == FilesystemBackend_Retrieve(basePath, parsed.ref,
               ReadFile(files, FsRetrievePath(basePath, parsed.ref), io))
  IN  IF ~parsed.ok \/ mk # "ok" \/ got.err # "" THEN [err |-> "error", out |-> <<>>]
      ELSE [err |-> "", out |-> got.data \o <<10>>]

\* runGet(args) with PROMPTVAULT_KEY = hexKey and PROMPTVAULT_HMAC_SECRET =
\* hmacSecret in the environment; mk is whether the base directory can be
\* opened.  out is what goes to standard output; a non-empty err makes the
\* tool exit with status 1.
runGet(args, hexKey, hmacSecret, files, mk, io) ==
  IF Len(args) \notin {1, 2} THEN [err |-> "usage", out |-> <<>>]
  ELSE
    LET basePath == IF Len(args) = 1 THEN DefaultBasePath ELSE args[1]
    IN  Once(UnmarshalReference(args[Len(args)]), LAMBDA parsed :
          IF ~parsed.ok THEN [err |-> "parse", out |-> <<>>]
          ELSE IF mk # "ok" THEN [err |-> "open", out |-> <<>>]
          ELSE
            Once(FilesystemBackend_Retrieve(basePath, parsed.ref,
                   ReadFile(files, FsRetrievePath(basePath, parsed.ref), io)),
                 LAMBDA got :
              IF got.err # "" THEN [err |-> "retrieve", out |-> <<>>]
              ELSE IF ~parsed.ref.encrypted
                THEN [err |-> "", out |-> got.data \o <<10>>]
              ELSE IF hexKey = <<>> THEN [err |-> "key", out |-> <<>>]
              ELSE
                Once(NewEnvelope(hexKey, hmacSecret), LAMBDA env :
                  IF env.err # "" THEN [err |-> "init", out |-> <<>>]
                  ELSE
                    Once(Envelope_Decrypt(env.env, got.data), LAMBDA dec :
                      IF dec.err # "" THEN [err |-> "decrypt", out |-> <<>>]
                      ELSE [err |-> "", out |-> dec.out \o <<10>>]))))

\* the flag of the emitted Reference left as Store returned it
EncryptedFlag_Unset(p, ref) == ref

\* if p.envelope != nil { ref.Encrypted = true }
EncryptedFlag(p, ref) ==
  IF p.envelope # NoEnvelope THEN [ref EXCEPT !.encrypted = TRUE] ELSE ref

\* len(val) < p.cfg.Vault.SizeThreshold
BelowThreshold(p, val) == Len(val) < p.cfg.sizeThreshold

\* The body of the Range callback of processSpan and processSpanEvents for
\* the attribute a, with c.pre put before the key (empty for a span
\* attribute).  acc carries the medium, the pending ops, the record of what
\* was offloaded, the record of the offloads tried (tries: one entry for each
\* value that got as far as Encrypt, storeCalled telling whether Store was
\* called for it) and their number; the n-th offload draws the
\* nonce c.nonces[n] and the Store outcome c.outcomes[n].
Offload(p, c, a, acc) ==
  IF a.key \notin p.keySet THEN acc
  ELSE IF BelowThreshold(p, Str(a.val)) THEN acc
  ELSE
    LET val == Str(a.val)
        n == acc.n + 1
        sealing == p.envelope # NoEnvelope
        enc == IF sealing THEN Envelope_Encrypt(p.envelope, val, c.nonces[n])
               ELSE [out |-> val, err |-> ""]
        data == enc.out
        r == Backend_Store(p, acc.objects, c.traceID, c.spanID, c.pre \o a.key,
                           data, c.outcomes[n])
        try == [spanID |-> c.spanID, pre |-> c.pre, key |-> a.key,
                plaintext |-> val, storeCalled |-> enc.err = "",
                ok |-> enc.err = "" /\ r.err = ""]
    IN  IF enc.err # "" THEN [acc EXCEPT !.n = n, !.tries = Append(@, try)]
        ELSE IF r.err # ""
          THEN [acc EXCEPT !.n = n, !.objects = r.objects, !.tries = Append(@, try)]
        ELSE [acc EXCEPT
                !.n = n,
                !.objects = r.objects,
                !.tries = Append(@, try),
                !.ops = Append(@, [key |-> a.key, ref |-> EncryptedFlag(p, r.ref)]),
                !.log = Append(@, [ref |-> EncryptedFlag(p, r.ref),
                                   stored |-> r.ref,
                                   plaintext |-> val,
                                   written |-> data,
                                   sealed |-> sealing,
                                   event |-> (c.pre # <<>>),
                                   spanID |-> c.spanID,
                                   pre |-> c.pre,
                                   key |-> a.key,
                                   target |-> r.target])]

\* attrs.Range(callback), from the i-th attribute on
RECURSIVE Range(_, _, _, _, _)
Range(p, c, attrs, i, acc) ==
  IF i > Len(attrs) THEN acc
  ELSE Range(p, c, attrs, i + 1, Offload(p, c, attrs[i], acc))

\* the switch taking every mode for keep_and_ref
ApplyOp_AlwaysKeep(p, attrs, op) ==
  PutStr(attrs, op.key \o VaultRefSuffix, MarshalReference(op.ref))

\* the switch on p.cfg.Vault.Mode for one pending op
ApplyOp(p, attrs, op) ==
  LET refJSON == MarshalReference(op.ref)
  IN  IF p.cfg.mode = "replace_with_ref" THEN PutStr(attrs, op.key, refJSON)
      ELSE IF p.cfg.mode = "drop"
        THEN PutStr(Remove(attrs, op.key), op.key \o VaultRefSuffix, refJSON)
      ELSE IF p.cfg.mode = "keep_and_ref"
        THEN PutStr(attrs, op.key \o VaultRefSuffix, refJSON)
      ELSE attrs

\* for _, op := range ops { ... }, from the i-th op on
RECURSIVE ApplyOps(_, _, _, _)
ApplyOps(p, attrs, ops, i) ==
  IF i > Len(ops) THEN attrs
  ELSE ApplyOps(p, ApplyOp(p, attrs, ops[i]), ops, i + 1)

\* the context of the offloads of one attribute map
RangeCtx(span, pre, ch) ==
  [traceID |-> IDString(span.traceID), spanID |-> IDString(span.spanID),
   pre |-> pre, nonces |-> ch.nonces, outcomes |-> ch.outcomes]

\* vaultProcessor.processSpan: st carries the medium, the record and the
\* counter across the batch; the result adds the span as rewritten
processSpan(p, span, ch, st) ==
  LET acc == Range(p, RangeCtx(span, <<>>, ch), span.attrs, 1,
                   [st EXCEPT !.ops = <<>>])
  IN  [acc EXCEPT !.span = [span EXCEPT !.attrs = ApplyOps(p, span.attrs, acc.ops, 1)]]

\* vaultProcessor.processSpanEvents, from the event with index i (0-based)
RECURSIVE processSpanEvents(_, _, _, _, _)
processSpanEvents(p, span, ch, st, i) ==
  IF i >= Len(span.events) THEN [st EXCEPT !.span = span]
  ELSE
    LET event == span.events[i + 1]
        acc == Range(p, RangeCtx(span, EventKeyPrefix(IDString(span.spanID), i), ch),
                     event, 1, [st EXCEPT !.ops = <<>>])
        rewritten == ApplyOps(p, event, acc.ops, 1)
    IN  processSpanEvents(p, [span EXCEPT !.events[i + 1] = rewritten], ch, acc, i + 1)

\* the loops of ConsumeTraces over the spans of td, from the k-th span on
RECURSIVE processSpans(_, _, _, _, _)
processSpans(p, td, ch, st, k) ==
  IF k > Len(td) THEN [st EXCEPT !.td = td]
  ELSE
    LET s1 == processSpan(p, td[k], ch, st)
        s2 == processSpanEvents(p, s1.span, ch, s1, 0)
    IN  processSpans(p, [td EXCEPT ![k] = s2.span], ch, s2, k + 1)

\* ------------------------------------------------------------- the inputs

\* the S3Config values a backend is built from: endpoint "h", bucket "b",
\* without and with a key prefix ("p/"), over http and over https
S3Configs ==
  {[endpoint |-> <<104>>, bucket |-> <<98>>, prefix |-> <<>>, useSSL |-> FALSE],
   [endpoint |-> <<104>>, bucket |-> <<98>>, prefix |-> <<112, 47>>, useSSL |-> TRUE]}

\* "/base"
BasePath == <<47, 98, 97, 115, 101>>

\* (traceID, spanID, attrKey) arguments of Store: a plain one ("t", "s",
\* "k"); attribute keys holding '/' ("j/k"), '#' ("k#j") and a control
\* character ("k\n"); and a span identifier holding '/' ("s/j")
Triples ==
  {<<(<<116>>), (<<115>>), (<<107>>)>>,
   <<(<<116>>), (<<115>>), (<<106, 47, 107>>)>>,
   <<(<<116>>), (<<115>>), (<<107, 35, 106>>)>>,
   <<(<<116>>), (<<115>>), (<<107, 10>>)>>,
   <<(<<116>>), (<<115, 47, 106>>), (<<107>>)>>}

\* the blobs handed to Store
Blobs == {<<1>>, <<2, 3>>}

\* "deadbeef"
DeadBeef == <<100, 101, 97, 100, 98, 101, 101, 102>>

\* "promptvault:"
ShortURI == <<112, 114, 111, 109, 112, 116, 118, 97, 117, 108, 116, 58>>

\* a Reference as a caller may hand it to Retrieve: as Store returned it, with
\* the checksum changed, with the other backend's scheme, or cut short
Variants(ref) ==
  {ref,
   [ref EXCEPT !.checksum = DeadBeef],
   [ref EXCEPT !.uri = (IF HasPrefix(ref.uri, S3Prefix) THEN FsPrefix ELSE S3Prefix)
                         \o DropFirst(ref.uri, Len(S3Prefix))],
   [ref EXCEPT !.uri = ShortURI]}

\* ---------------------------------------------------------------- state

VARIABLES
  kind,       \* which backend is active: "s3" or "filesystem"
  s3,         \* the S3Backend's fields
  objects,    \* the medium: request target (or file path) -> bytes stored
  lastStore,  \* history: triple -> Reference and data of its latest successful Store
  lastPut,    \* history: object -> triple of the Store that last wrote it
  allOk,      \* history: every Store call so far succeeded
  res,        \* the latest call and what it returned
  nOps,       \* number of Store calls made
  fsw,        \* the filesystem Store in progress: its arguments, temporary file
  overlap,    \* history: the Store that was in progress at the latest Retrieve
  conn        \* the client's idle connections; history: number of Close calls

VARIABLES
  envelope,   \* the Envelope in use (its key and hmacSecret), or NoEnvelope
  cres        \* the latest Envelope call and what it returned

VARIABLES
  cfg,        \* the processor's Config
  started,    \* Start has returned nil
  received,   \* the batch the latest ConsumeTraces was called with
  forwarded,  \* the batch it handed to the next consumer
  emitted,    \* history: what the latest ConsumeTraces offloaded, in order
  tried,      \* history: the offloads the latest ConsumeTraces tried, in order
  shut,       \* the latest Shutdown and what it returned
  got,        \* the latest run of promptvaultctl since the latest ConsumeTraces
  made,       \* what Validate and newProcessor returned for cfg
  ctRes,      \* what the latest Start or ConsumeTraces returned
  nBatches    \* number of ConsumeTraces calls made

storeVars ==
  <<kind, s3, objects, lastStore, lastPut, allOk, res, nOps, fsw, overlap, conn>>

cryptoVars == <<envelope, cres>>

procVars ==
  <<cfg, started, received, forwarded, emitted, tried, shut, got, made, ctRes,
    nBatches>>

vars == <<storeVars, cryptoVars, procVars>>

\* "p", "q": the attribute keys listed in vault.keys; "m": one that is not
KeyP == <<112>>
KeyQ == <<113>>
KeyM == <<109>>

\* 'a&"': a key json.Marshal writes with escapes
KeyAmp == <<97, 38, 34>>

\* "p.vault_ref": the key the reference of "p" goes under in the drop and
\* keep_and_ref modes
KeyPRef == KeyP \o VaultRefSuffix

\* "abcd": a key string that is valid hex of the wrong length
ShortHexKey == <<97, 98, 99, 100>>

\* hex digits a..f written in upper case
ToUpper(s) == [i \in 1..Len(s) |-> IF s[i] >= 97 /\ s[i] <= 102 THEN s[i] - 32 ELSE s[i]]

\* the key strings Start can find, in the configuration or in the
\* environment: 32 bytes in lower-case and in upper-case hex; "abcd"; the
\* empty string (a variable that is not set); 16, 31 and 33 bytes; 63 digits;
\* 64 characters of which the tenth is 'g'
HexKeys ==
  {HexEncodeToString(Key1), ToUpper(HexEncodeToString(Key2)), ShortHexKey, <<>>,
   SubSeq(HexEncodeToString(Key1), 1, 32),
   SubSeq(HexEncodeToString(Key1), 1, 62),
   HexEncodeToString(Key1) \o <<48, 48>>,
   SubSeq(HexEncodeToString(Key1), 1, 63),
   [HexEncodeToString(Key1) EXCEPT ![10] = 103]}

\* The crypto sections of the model's configurations that go with every
\* backend, threshold and mode: off, on with a 256-bit key, on with a key that
\* is too short.  envValue is what os.Getenv(EnvVar) returns.
CryptoConfigs ==
  {[enable |-> FALSE, keySource |-> "static", staticKey |-> <<>>,
    envValue |-> <<>>, hmacSecret |-> <<>>],
   [enable |-> TRUE, keySource |-> "static", staticKey |-> HexEncodeToString(Key1),
    envValue |-> <<>>, hmacSecret |-> HmacSecret],
   [enable |-> TRUE, keySource |-> "static", staticKey |-> ShortHexKey,
    envValue |-> <<>>, hmacSecret |-> HmacSecret]}

\* the crypto sections that take each key string in turn, from the
\* configuration and from the environment
KeyCryptoConfigs ==
  {[enable |-> TRUE, keySource |-> "static", staticKey |-> k,
    envValue |-> HexEncodeToString(Key1), hmacSecret |-> HmacSecret] : k \in HexKeys}
    \cup
  {[enable |-> TRUE, keySource |-> "env", staticKey |-> HexEncodeToString(Key1),
    envValue |-> k, hmacSecret |-> HmacSecret] : k \in HexKeys}

\* The configurations newProcessor is given (all pass Validate): every
\* backend, threshold and mode with the vault keys "p" and "q"; each key
\* string; the vault keys "p" and "p.vault_ref".
Configs ==
  {[backend |-> b, basePath |-> BasePath,
    s3 |-> CHOOSE c \in S3Configs : ~c.useSSL,
    keys |-> <<KeyP, KeyQ>>, sizeThreshold |-> th, mode |-> m, crypto |-> cr] :
     b \in {"filesystem", "s3"}, th \in {0, 2},
     m \in {"replace_with_ref", "drop", "keep_and_ref"}, cr \in CryptoConfigs}
    \cup
  {[backend |-> "s3", basePath |-> BasePath,
    s3 |-> CHOOSE c \in S3Configs : ~c.useSSL,
    keys |-> <<KeyP, KeyQ>>, sizeThreshold |-> 0, mode |-> "replace_with_ref",
    crypto |-> cr] : cr \in KeyCryptoConfigs}
    \cup
  {[backend |-> "s3", basePath |-> BasePath,
    s3 |-> CHOOSE c \in S3Configs : ~c.useSSL,
    keys |-> <<KeyP, KeyPRef>>, sizeThreshold |-> th, mode |-> m,
    crypto |-> CHOOSE cr \in CryptoConfigs : ~cr.enable] :
     th \in {0, 2}, m \in {"replace_with_ref", "drop", "keep_and_ref"}}

\* no Config: the processor is not part of the behaviour
NoConfig ==
  [backend |-> "", basePath |-> <<>>, s3 |-> CHOOSE c \in S3Configs : ~c.useSSL,
   keys |-> <<>>, sizeThreshold |-> 0, mode |-> "",
   crypto |-> CHOOSE cr \in CryptoConfigs : ~cr.enable]

\* no Shutdown call yet.  backend: what p.backend was; closed: it called the
\* backend's Close, which returned closeErr and issued requests
NoShutdown ==
  [called |-> FALSE, backend |-> "none", closed |-> FALSE, closeErr |-> "",
   err |-> "", requests |-> 0]

\* no run of promptvaultctl yet.  args and hexKey are what it was given, entry
\* the offload whose Reference the text came from, whole that the text was
\* not cut, medium whether the directory and the file could be read
NoGet ==
  [called |-> FALSE, args |-> <<>>, hexKey |-> <<>>, entry |-> <<>>, whole |-> FALSE,
   medium |-> "", err |-> "", out |-> <<>>]

\* neither Validate nor newProcessor called yet
NoMade ==
  [validated |-> FALSE, validateErr |-> "", built |-> FALSE, nil |-> FALSE,
   err |-> "", keySet |-> {}]

\* no connection yet, no Close call yet
NoConn == [idle |-> 0, closes |-> 0]

\* the processor's variables where the processor is not part of the behaviour
NoProcessor ==
  /\ cfg = NoConfig
  /\ started = FALSE
  /\ received = <<>>
  /\ forwarded = <<>>
  /\ emitted = <<>>
  /\ tried = <<>>
  /\ shut = NoShutdown
  /\ got = NoGet
  /\ made = NoMade
  /\ ctRes = ""
  /\ nBatches = 0

NoSeal == [ok |-> FALSE, plain |-> <<>>, nonce |-> <<>>, out |-> <<>>]

\* no Envelope call yet.  op is the call; input what it was given; plain the
\* plaintext (or signed text) it goes back to; out and err (or ok, for
\* VerifyMetadata) what it returned; by the envelope that was called; nonce
\* what rand.Reader delivered to Encrypt; prev the Encrypt call right before
\* an Encrypt call.
NoCrypto ==
  [op |-> "none", input |-> <<>>, plain |-> <<>>, out |-> <<>>, err |-> "",
   ok |-> FALSE, by |-> NoEnvelope, nonce |-> <<>>, prev |-> NoSeal]

\* res.rtErr and res.status are what the round trip (or the disk) answered,
\* res.fault that the medium or the transport failed: an error of the round
\* trip, a 5xx status, a body or file that could not be read
NoCall ==
  [op |-> "none", triple |-> <<>>, input |-> <<>>, ref |-> ZeroReference,
   data |-> <<>>, err |-> "", requests |-> 0, hasRead |-> FALSE, read |-> <<>>,
   rtErr |-> "", status |-> 0, fault |-> FALSE]

\* no filesystem Store in progress
NoWrite == [pc |-> "idle", triple |-> <<>>, data |-> <<>>, tmp |-> <<>>]

Init ==
  /\ s3 \in S3Configs
  /\ kind \in (IF s3.useSSL THEN {"s3"} ELSE {"s3", "filesystem"})
  /\ objects = <<>>
  /\ lastStore = <<>>
  /\ lastPut = <<>>
  /\ allOk = TRUE
  /\ res = NoCall
  /\ nOps = 0
  /\ fsw = NoWrite
  /\ overlap = NoWrite
  /\ conn = NoConn
  /\ envelope = NoEnvelope
  /\ cres = NoCrypto
  /\ NoProcessor

\* the object (request target, or file) a Store of triple t writes
ObjectOf(t) ==
  IF kind = "s3" THEN RequestTarget(S3StoreURL(s3, t[1], t[2], t[3]))
  ELSE FsPath(BasePath, t[1], t[2], t[3])

\* a caller's Store(ctx, traceID, spanID, attrKey, data) returned r
StoreCall(t, data, r, rtErr, status) ==
  /\ nOps < MaxOps
  /\ nOps' = nOps + 1
  /\ objects' = r.objects
  /\ lastStore' = IF r.err = "" THEN (t :> [ref |-> r.ref, data |-> data]) @@ lastStore
                  ELSE lastStore
  /\ lastPut' = IF r.objects # objects \/ r.err = ""
                  THEN (r.target :> (IF r.err = "" THEN t ELSE <<>>)) @@ lastPut
                  ELSE lastPut
  /\ allOk' = (allOk /\ r.err = "")
  /\ res' = [NoCall EXCEPT !.op = "Store", !.triple = t, !.input = data,
                           !.ref = r.ref, !.err = r.err, !.requests = r.requests,
                           !.rtErr = rtErr, !.status = status,
                           !.fault = (rtErr # "" \/ status >= 500)]
  /\ overlap' = NoWrite
  /\ conn' = [conn EXCEPT !.idle = IdleAfter(@, r, rtErr)]
  /\ UNCHANGED <<kind, s3, cryptoVars, procVars>>

S3Store ==
  /\ kind = "s3"
  /\ UNCHANGED fsw
  /\ \E t \in Triples, data \in Blobs, rt \in PutOutcomes :
       LET r == S3Backend_Store(s3, objects, t[1], t[2], t[3], data, rt)
       IN  IF r.requests = 0 THEN StoreCall(t, data, r, "", 0)
           ELSE StoreCall(t, data, r, rt.err, rt.status)

\* a Store call on the filesystem that no other call overlaps
FsStore ==
  /\ kind = "filesystem"
  /\ nOps + (IF fsw.pc = "idle" THEN 0 ELSE 1) < MaxOps
  /\ UNCHANGED fsw
  /\ \E t \in Triples, data \in Blobs, io \in {"ok", "fail"} :
       StoreCall(t, data,
                 FilesystemBackend_Store(BasePath, objects, t[1], t[2], t[3], data, io),
                 IF io = "ok" THEN "" ELSE "io", 0)

\* A Store call on the filesystem that other calls overlap, step by step: it
\* creates its temporary file, ...
FsStoreBegin ==
  /\ kind = "filesystem"
  /\ fsw.pc = "idle"
  /\ nOps < MaxOps
  /\ \E t \in Triples, data \in Blobs :
       fsw' = [pc |-> "writing", triple |-> t, data |-> data, tmp |-> <<>>]
  /\ UNCHANGED <<kind, s3, objects, lastStore, lastPut, allOk, res, nOps, overlap,
                 conn, cryptoVars, procVars>>

\* ... writes the data into it one byte at a time, ...
FsStoreWrite ==
  /\ fsw.pc = "writing"
  /\ Len(fsw.tmp) < Len(fsw.data)
  /\ LET t == fsw.triple
         w == FsWrite(objects, FsPath(BasePath, t[1], t[2], t[3]), fsw.tmp,
                      <<fsw.data[Len(fsw.tmp) + 1]>>)
     IN  /\ objects' = w.files
         /\ fsw' = [fsw EXCEPT !.tmp = w.tmp]
  /\ UNCHANGED <<kind, s3, lastStore, lastPut, allOk, res, nOps, overlap, conn,
                 cryptoVars, procVars>>

\* ... and renames it to the path, which ends the call; ...
FsStoreRename ==
  /\ fsw.pc = "writing"
  /\ fsw.tmp = fsw.data
  /\ fsw' = NoWrite
  /\ LET t == fsw.triple
     IN  StoreCall(t, fsw.data,
                   FilesystemBackend_Store(BasePath, objects, t[1], t[2], t[3],
                                           fsw.tmp, "ok"), "", 0)

\* ... or a step of it fails, which ends the call with the error.
FsStoreFail ==
  /\ fsw.pc = "writing"
  /\ fsw' = NoWrite
  /\ LET t == fsw.triple
     IN  StoreCall(t, fsw.data,
                   FilesystemBackend_Store(BasePath, objects, t[1], t[2], t[3],
                                           fsw.data, "fail"), "io", 0)

\* a caller's Retrieve(ctx, ref) returned r
RetrieveCall(ref, r, rtErr, status, fault) ==
  /\ res' = [NoCall EXCEPT !.op = "Retrieve", !.ref = ref, !.data = r.data,
                           !.err = r.err, !.requests = r.requests,
                           !.hasRead = r.hasRead, !.read = r.read,
                           !.rtErr = rtErr, !.status = status, !.fault = fault]
  /\ overlap' = fsw
  /\ conn' = [conn EXCEPT !.idle = IdleAfter(@, r, rtErr)]
  /\ UNCHANGED <<kind, s3, objects, lastStore, lastPut, allOk, nOps, fsw, cryptoVars,
                 procVars>>

\* the References a caller hands to Retrieve
RetrieveInputs == UNION {Variants(lastStore[t].ref) : t \in DOMAIN lastStore}

S3Retrieve ==
  /\ kind = "s3"
  /\ \E ref \in RetrieveInputs :
       IF Len(ref.uri) < Len(S3Prefix) \/ InvalidURL(S3RetrieveURL(s3, ref))
         THEN RetrieveCall(ref, S3Backend_Retrieve(s3, ref, [err |-> ""]), "", 0, FALSE)
         ELSE \E rt \in GetOutcomes(objects, RequestTarget(S3RetrieveURL(s3, ref))) :
                RetrieveCall(ref, S3Backend_Retrieve(s3, ref, rt), rt.err, rt.status,
                             rt.err # "" \/ rt.status >= 500 \/ rt.readErr)

FsRetrieve ==
  /\ kind = "filesystem"
  /\ \E ref \in RetrieveInputs :
       \E rd \in ReadOutcomes(objects, FsRetrievePath(BasePath, ref)) :
         RetrieveCall(ref, FilesystemBackend_Retrieve(BasePath, ref, rd), rd.err, 0,
                      rd.err = "io")

Next ==
  \/ S3Store \/ S3Retrieve
  \/ FsStore \/ FsRetrieve
  \/ FsStoreBegin \/ FsStoreWrite \/ FsStoreRename \/ FsStoreFail

Spec == Init /\ [][Next]_vars

\* ------------------------------------------------- the Envelope on its own

InitCrypto ==
  /\ kind = "none"
  /\ s3 \in {c \in S3Configs : ~c.useSSL}
  /\ objects = <<>>
  /\ lastStore = <<>>
  /\ lastPut = <<>>
  /\ allOk = TRUE
  /\ res = NoCall
  /\ nOps = 0
  /\ fsw = NoWrite
  /\ overlap = NoWrite
  /\ conn = NoConn
  /\ envelope \in Envelopes
  /\ cres = NoCrypto
  /\ NoProcessor

\* a caller calls env.Encrypt(plaintext)
Encrypt ==
  \E plaintext \in Plaintexts, nonce \in Nonces :
    LET r == Envelope_Encrypt(envelope, plaintext, nonce)
    IN  /\ cres' = [NoCrypto EXCEPT
                      !.op = "Encrypt", !.input = plaintext, !.plain = plaintext,
                      !.out = r.out, !.err = r.err, !.by = envelope,
                      !.nonce = nonce,
                      !.prev = IF cres.op = "Encrypt" /\ cres.err = ""
                                 THEN [ok |-> TRUE, plain |-> cres.plain,
                                       nonce |-> cres.nonce, out |-> cres.out]
                                 ELSE NoSeal]
        /\ UNCHANGED <<storeVars, envelope, procVars>>

\* a caller calls env.Decrypt on what Encrypt just returned
Decrypt ==
  /\ cres.op = "Encrypt"
  /\ cres.err = ""
  /\ LET r == Envelope_Decrypt(envelope, cres.out)
     IN  cres' = [NoCrypto EXCEPT
                   !.op = "Decrypt", !.input = cres.out, !.plain = cres.plain,
                   !.out = r.out, !.err = r.err, !.by = envelope]
  /\ UNCHANGED <<storeVars, envelope, procVars>>

\* what a blob can turn into on its way back: one of its bytes changed, or its
\* tail cut off (down to nothing)
Corruptions(blob) ==
  {[blob EXCEPT ![i] = (@ + 1) % 256] : i \in 1..Len(blob)}
    \cup {SubSeq(blob, 1, n) : n \in 0..(Len(blob) - 1)}

\* a caller calls Decrypt, on an envelope with another key, on what Encrypt
\* just returned
DecryptWrongKey ==
  /\ cres.op = "Encrypt"
  /\ cres.err = ""
  /\ \E e \in Verifiers :
       /\ e.key # envelope.key
       /\ LET r == Envelope_Decrypt(e, cres.out)
          IN  cres' = [NoCrypto EXCEPT
                        !.op = "DecryptWrongKey", !.input = cres.out,
                        !.plain = cres.plain, !.out = r.out, !.err = r.err,
                        !.by = e]
  /\ UNCHANGED <<storeVars, envelope, procVars>>

\* a caller calls env.Decrypt on a corrupted or truncated copy of what Encrypt
\* just returned
DecryptCorrupted ==
  /\ cres.op = "Encrypt"
  /\ cres.err = ""
  /\ \E blob \in Corruptions(cres.out) :
       LET r == Envelope_Decrypt(envelope, blob)
       IN  cres' = [NoCrypto EXCEPT
                     !.op = "DecryptCorrupted", !.input = blob,
                     !.plain = cres.plain, !.out = r.out, !.err = r.err,
                     !.by = envelope]
  /\ UNCHANGED <<storeVars, envelope, procVars>>

\* a caller calls env.SignMetadata(text)
SignMetadata ==
  \E text \in Texts :
    /\ cres' = [NoCrypto EXCEPT
                  !.op = "SignMetadata", !.input = text, !.plain = text,
                  !.out = Envelope_SignMetadata(envelope, text), !.by = envelope]
    /\ UNCHANGED <<storeVars, envelope, procVars>>

\* a caller calls VerifyMetadata, on some envelope, with the signature
\* SignMetadata just returned and the signed text, or that text with a suffix
VerifyMetadata ==
  /\ cres.op = "SignMetadata"
  /\ \E e \in Verifiers, suffix \in Suffixes :
       cres' = [NoCrypto EXCEPT
                 !.op = "VerifyMetadata", !.input = cres.plain \o suffix,
                 !.plain = cres.plain, !.out = cres.out,
                 !.ok = Envelope_VerifyMetadata(e, cres.plain \o suffix, cres.out),
                 !.by = e]
  /\ UNCHANGED <<storeVars, envelope, procVars>>

NextCrypto ==
  \/ Encrypt
  \/ Decrypt
  \/ DecryptWrongKey
  \/ DecryptCorrupted
  \/ SignMetadata
  \/ VerifyMetadata

SpecCrypto == InitCrypto /\ [][NextCrypto]_vars

\* ------------------------------------------------------- the processor

\* number of ConsumeTraces calls in one behaviour of SpecProc
MaxBatches == 1

\* the trace and span identifiers of the model's spans
TraceID1 == [i \in 1..16 |-> i]
SpanID1 == [i \in 1..8 |-> i]
SpanID2 == [i \in 1..8 |-> 16 * i]

Attr(k, s) == [key |-> k, val |-> StrValue(s)]

\* The batches ConsumeTraces is called with, as the sequence of their spans:
\* a span with a matched attribute, an unmatched one and an event with a
\* matched attribute; a span with two matched attributes; two spans, the
\* second with an event; a span with the attributes "p" and "p.vault_ref".
\* Values are one or two bytes long.
Batches ==
  {<<[traceID |-> TraceID1, spanID |-> SpanID1,
      attrs |-> <<Attr(KeyP, <<7, 8>>), Attr(KeyM, <<9>>)>>,
      events |-> << <<Attr(KeyP, <<5>>)>> >>]>>,
   <<[traceID |-> TraceID1, spanID |-> SpanID1,
      attrs |-> <<Attr(KeyP, <<5>>), Attr(KeyQ, <<7, 8>>)>>,
      events |-> <<>>]>>,
   <<[traceID |-> TraceID1, spanID |-> SpanID1,
      attrs |-> <<Attr(KeyP, <<7, 8>>)>>, events |-> <<>>],
     [traceID |-> TraceID1, spanID |-> SpanID2,
      attrs |-> <<Attr(KeyM, <<9>>)>>,
      events |-> << <<Attr(KeyQ, <<7, 8>>), Attr(KeyM, <<9>>)>> >>]>>,
   <<[traceID |-> TraceID1, spanID |-> SpanID1,
      attrs |-> <<Attr(KeyP, <<7, 8>>), Attr(KeyPRef, <<9>>)>>,
      events |-> <<>>]>>,
   <<[traceID |-> TraceID1, spanID |-> SpanID1,
      attrs |-> <<Attr(KeyAmp, <<7, 8>>)>>, events |-> <<>>]>>}

\* the most offloads one batch of the model can ask for
MaxOffloads == 2

\* the draw in which every nonce is all 255
SameNonces == [i \in 1..MaxOffloads |-> [j \in 1..NonceSize |-> 255]]

\* the nonces rand.Reader delivers to the offloads of one batch, in order:
\* all different; all the same; nothing for the first and a nonce for the
\* others
NonceDraws ==
  {[i \in 1..MaxOffloads |-> [j \in 1..NonceSize |-> 16 * i + j]],
   SameNonces,
   [i \in 1..MaxOffloads |->
      IF i = 1 THEN <<>> ELSE [j \in 1..NonceSize |-> 16 * i + j]]}

\* newProcessor has returned the processor for one of the configurations
InitProc ==
  /\ kind = "none"
  /\ s3 \in {c \in S3Configs : ~c.useSSL}
  /\ objects = <<>>
  /\ lastStore = <<>>
  /\ lastPut = <<>>
  /\ allOk = TRUE
  /\ res = NoCall
  /\ nOps = 0
  /\ fsw = NoWrite
  /\ overlap = NoWrite
  /\ conn = NoConn
  /\ envelope = NoEnvelope
  /\ cres = NoCrypto
  /\ cfg \in Configs
  /\ started = FALSE
  /\ received = <<>>
  /\ forwarded = <<>>
  /\ emitted = <<>>
  /\ tried = <<>>
  /\ shut = NoShutdown
  /\ got = NoGet
  /\ made = NoMade
  /\ ctRes = ""
  /\ nBatches = 0

\* the vaultProcessor: its configuration, key set, backend and envelope
Processor ==
  [cfg |-> cfg, keySet |-> {cfg.keys[i] : i \in 1..Len(cfg.keys)},
   kind |-> kind, s3 |-> s3, envelope |-> envelope]

\* hexKey in Start: the configured key, or the value of the environment
\* variable when key_source is "env"
hexKey ==
  IF cfg.crypto.keySource = "env" THEN cfg.crypto.envValue
  ELSE cfg.crypto.staticKey

\* vaultProcessor.Start: the backend is set up, then the envelope when
\* encryption is enabled; a key NewEnvelope refuses makes Start fail.  When
\* the base directory cannot be made, Start fails and p.backend stays nil.
Start ==
  /\ ~started
  /\ kind = "none"
  /\ \E mk \in {"ok", "fail"} :
       /\ mk = "fail" => cfg.backend = "filesystem"
       /\ IF mk = "fail"
            THEN /\ started' = FALSE
                 /\ ctRes' = "backend"
                 /\ UNCHANGED <<kind, s3, envelope>>
            ELSE /\ kind' = cfg.backend
                 /\ s3' = cfg.s3
                 /\ LET env == IF cfg.crypto.enable
                                 THEN NewEnvelope(hexKey, cfg.crypto.hmacSecret)
                                 ELSE [env |-> NoEnvelope, err |-> ""]
                    IN  /\ envelope' = env.env
                        /\ started' = (env.err = "")
                        /\ ctRes' = env.err
  /\ UNCHANGED <<objects, lastStore, lastPut, allOk, res, nOps, fsw, overlap, conn,
                 cres, cfg, received, forwarded, emitted, tried, shut, got, made,
                 nBatches>>

\* the attributes of the batch td that the processor p will try to offload, as
\* <<span, event (0 for the span's own attributes), attribute>> positions
OffloadSites(p, td) ==
  UNION {
    {<<k, 0, i>> : i \in {i \in 1..Len(td[k].attrs) :
                            /\ td[k].attrs[i].key \in p.keySet
                            /\ ~BelowThreshold(p, Str(td[k].attrs[i].val))}}
      \cup
    UNION {{<<k, e, i>> : i \in {i \in 1..Len(td[k].events[e]) :
                                   /\ td[k].events[e][i].key \in p.keySet
                                   /\ ~BelowThreshold(p, Str(td[k].events[e][i].val))}} :
           e \in 1..Len(td[k].events)} :
    k \in 1..Len(td)}

\* vaultProcessor.ConsumeTraces(ctx, td): every span and its events are
\* processed, then td goes to the next consumer, whose result is returned.
\* The nonces and Store outcomes that no offload of the batch consumes are
\* held fixed.
ConsumeTraces ==
  /\ started
  /\ nBatches < MaxBatches
  /\ \E td \in Batches : \E sites \in {Cardinality(OffloadSites(Processor, td))} :
     \E nonces \in IF envelope = NoEnvelope THEN {SameNonces} ELSE NonceDraws,
        outcomes \in {o \in [1..MaxOffloads -> StoreOutcomes] :
                       \A i \in 1..MaxOffloads : i > sites => o[i] = "ok"} :
     \E r \in {processSpans(Processor, td,
                            [nonces |-> nonces, outcomes |-> outcomes],
                            [objects |-> objects, ops |-> <<>>, log |-> <<>>,
                             tries |-> <<>>, n |-> 0, span |-> <<>>,
                             td |-> <<>>], 1)} :
     \E nextErr \in {"", "next"} :
       /\ objects' = r.objects
       /\ received' = td
       /\ forwarded' = r.td
       /\ emitted' = r.log
       /\ tried' = r.tries
       /\ ctRes' = nextErr
       /\ conn' = IF kind = "s3" /\ \E i \in 1..Len(r.tries) : r.tries[i].storeCalled
                    THEN [conn EXCEPT !.idle = 1]
                    ELSE conn
  /\ got' = NoGet
  /\ nBatches' = nBatches + 1
  /\ UNCHANGED <<kind, s3, lastStore, lastPut, allOk, res, nOps, fsw, overlap,
                 cryptoVars, cfg, started, shut, made>>

NextProc == Start \/ ConsumeTraces

SpecProc == InitProc /\ [][NextProc]_vars

\* ------------------------------------- closing the backend, shutting down

\* bound on the number of Close calls made on the backend
MaxCloses == 2

\* the configurations of the processors that are shut down: the object store
\* without encryption and with a key Start refuses, and the filesystem
CloseConfigs ==
  {c \in Configs :
     /\ c.keys = <<KeyP, KeyQ>> /\ c.sizeThreshold = 0 /\ c.mode = "replace_with_ref"
     /\ c.crypto \in CryptoConfigs
     /\ c.crypto.enable => (c.backend = "s3" /\ c.crypto.staticKey = ShortHexKey)}

InitClose ==
  /\ InitProc
  /\ cfg \in CloseConfigs

\* the owner of the S3Backend calls s.Close()
Close ==
  /\ kind = "s3"
  /\ conn.closes < MaxCloses
  /\ LET r == S3Backend_Close(s3, conn.idle)
     IN  /\ res' = [NoCall EXCEPT !.op = "Close", !.err = r.err,
                                  !.requests = r.requests]
         /\ conn' = [idle |-> r.idle, closes |-> conn.closes + 1]
  /\ overlap' = NoWrite
  /\ UNCHANGED <<kind, s3, objects, lastStore, lastPut, allOk, nOps, fsw, cryptoVars,
                 procVars>>

\* the collector calls p.Shutdown(ctx)
Shutdown ==
  /\ LET r == vaultProcessor_Shutdown(Processor, conn.idle)
     IN  /\ r.closed => conn.closes < MaxCloses
         /\ shut' = [called |-> TRUE, backend |-> kind, closed |-> r.closed,
                     closeErr |-> r.closeErr, err |-> r.err, requests |-> r.requests]
         /\ conn' = IF r.closed THEN [idle |-> r.idle, closes |-> conn.closes + 1]
                    ELSE conn
  /\ UNCHANGED <<kind, s3, objects, lastStore, lastPut, allOk, res, nOps, fsw, overlap,
                 cryptoVars, cfg, started, received, forwarded, emitted, tried, got,
                 made, ctRes, nBatches>>

\* a reader of the forwarded traces calls Retrieve on the processor's backend
\* with a Reference the latest ConsumeTraces emitted
RetrieveOffloaded ==
  /\ kind # "none"
  /\ \E ref \in {emitted[i].ref : i \in 1..Len(emitted)} :
       IF kind = "s3"
         THEN \E rt \in GetOutcomes(objects, RequestTarget(S3RetrieveURL(s3, ref))) :
                RetrieveCall(ref, S3Backend_Retrieve(s3, ref, rt), rt.err, rt.status,
                             rt.err # "" \/ rt.status >= 500 \/ rt.readErr)
         ELSE \E rd \in ReadOutcomes(objects, FsRetrievePath(cfg.basePath, ref)) :
                RetrieveCall(ref, FilesystemBackend_Retrieve(cfg.basePath, ref, rd),
                             rd.err, 0, rd.err = "io")

NextClose == Start \/ ConsumeTraces \/ RetrieveOffloaded \/ Close \/ Shutdown

SpecClose == InitClose /\ [][NextClose]_vars

\* ------------------------------------------------ retrieving with the tool

\* the configurations of the processors whose offloads the tool retrieves:
\* the filesystem backend, every value offloaded and replaced by a reference
GetConfigs ==
  {[backend |-> "filesystem", basePath |-> BasePath,
    s3 |-> CHOOSE c \in S3Configs : ~c.useSSL,
    keys |-> ks, sizeThreshold |-> 0, mode |-> "replace_with_ref", crypto |-> cr] :
     ks \in {<<KeyP, KeyAmp>>}, cr \in CryptoConfigs}

InitGet ==
  /\ kind = "none"
  /\ s3 \in {c \in S3Configs : ~c.useSSL}
  /\ objects = <<>>
  /\ lastStore = <<>>
  /\ lastPut = <<>>
  /\ allOk = TRUE
  /\ res = NoCall
  /\ nOps = 0
  /\ fsw = NoWrite
  /\ overlap = NoWrite
  /\ conn = NoConn
  /\ envelope = NoEnvelope
  /\ cres = NoCrypto
  /\ cfg \in GetConfigs
  /\ started = FALSE
  /\ received = <<>>
  /\ forwarded = <<>>
  /\ emitted = <<>>
  /\ tried = <<>>
  /\ shut = NoShutdown
  /\ got = NoGet
  /\ made = NoMade
  /\ ctRes = ""
  /\ nBatches = 0

\* the keys PROMPTVAULT_KEY is set to: the processor's, another, none
ToolKeys == {HexEncodeToString(Key1), HexEncodeToString(Key2), <<>>}

\* The runs of the tool on the Reference of one offload: with the processor's
\* base path and every key; with a directory that cannot be opened and with a
\* file that cannot be read; with the text cut by its last byte; with the
\* default base path.
GetRuns ==
  {[own |-> TRUE, cut |-> 0, key |-> k, medium |-> "ok"] : k \in ToolKeys}
    \cup {[own |-> TRUE, cut |-> 0, key |-> HexEncodeToString(Key1), medium |-> m] :
            m \in {"open", "io"}}
    \cup {[own |-> TRUE, cut |-> 1, key |-> HexEncodeToString(Key1), medium |-> "ok"],
          [own |-> FALSE, cut |-> 0, key |-> HexEncodeToString(Key1), medium |-> "ok"]}

\* an operator runs `promptvaultctl get-file <base-path> <vault-ref-json>` (or
\* `get <vault-ref-json>`) on a Reference taken from the forwarded span
GetFile ==
  /\ \E i \in 1..Len(emitted), run \in GetRuns :
       \E json \in {MarshalReference(emitted[i].ref)} :
         \E args \in {IF run.own
                         THEN <<cfg.basePath, SubSeq(json, 1, Len(json) - run.cut)>>
                         ELSE <<SubSeq(json, 1, Len(json) - run.cut)>>} :
           \E r \in {runGet(args, run.key, <<>>, objects,
                            IF run.medium = "open" THEN "fail" ELSE "ok",
                            IF run.medium = "io" THEN "io" ELSE "")} :
             got' = [called |-> TRUE, args |-> args, hexKey |-> run.key,
                     entry |-> emitted[i], whole |-> (run.cut = 0),
                     medium |-> run.medium, err |-> r.err, out |-> r.out]
  /\ UNCHANGED <<storeVars, cryptoVars, cfg, started, received, forwarded, emitted,
                 tried, shut, made, ctRes, nBatches>>

NextGet == Start \/ ConsumeTraces \/ GetFile

SpecGet == InitGet /\ [][NextGet]_vars

\* ------------------------------------------------ checking the configuration

\* The configurations a collector hands to Validate and newProcessor: every
\* backend name (none, a wrong one, the two there are), base path and bucket
\* empty or not, every mode (none, a wrong one, the three there are), no key
\* or one, encryption off and on with every key source (none, a wrong one,
\* the two there are), a threshold of 0 and a negative one.
RawConfigs ==
  {[backend |-> b, basePath |-> bp,
    s3 |-> [endpoint |-> <<104>>, bucket |-> bk, prefix |-> <<>>, useSSL |-> FALSE],
    keys |-> ks, sizeThreshold |-> th, mode |-> m,
    crypto |-> [enable |-> en, keySource |-> src, staticKey |-> <<>>,
                envValue |-> <<>>, hmacSecret |-> <<>>]] :
     b \in {"", "invalid", "filesystem", "s3"}, bp \in {<<>>, BasePath},
     bk \in {<<>>, <<98>>}, ks \in {<<>>, <<KeyP>>}, th \in {0, -1},
     m \in {"", "invalid", "replace_with_ref", "drop", "keep_and_ref"},
     en \in BOOLEAN, src \in {"", "file", "env", "static"}}

InitNew ==
  /\ kind = "none"
  /\ s3 \in {c \in S3Configs : ~c.useSSL}
  /\ objects = <<>>
  /\ lastStore = <<>>
  /\ lastPut = <<>>
  /\ allOk = TRUE
  /\ res = NoCall
  /\ nOps = 0
  /\ fsw = NoWrite
  /\ overlap = NoWrite
  /\ conn = NoConn
  /\ envelope = NoEnvelope
  /\ cres = NoCrypto
  /\ cfg \in RawConfigs
  /\ started = FALSE
  /\ received = <<>>
  /\ forwarded = <<>>
  /\ emitted = <<>>
  /\ tried = <<>>
  /\ shut = NoShutdown
  /\ got = NoGet
  /\ made = NoMade
  /\ ctRes = ""
  /\ nBatches = 0

\* the collector calls cfg.Validate()
Validate ==
  /\ made' = [made EXCEPT !.validated = TRUE, !.validateErr = Config_Validate(cfg)]
  /\ UNCHANGED <<storeVars, cryptoVars, cfg, started, received, forwarded, emitted,
                 tried, shut, got, ctRes, nBatches>>

\* the factory calls newProcessor(ctx, set, cfg, next)
NewProcessor ==
  /\ LET r == newProcessor(cfg)
     IN  made' = [made EXCEPT !.built = TRUE, !.nil = r.nil, !.err = r.err,
                              !.keySet = r.keySet]
  /\ UNCHANGED <<storeVars, cryptoVars, cfg, started, received, forwarded, emitted,
                 tried, shut, got, ctRes, nBatches>>

NextNew == Validate \/ NewProcessor

SpecNew == InitNew /\ [][NextNew]_vars

\* ------------------------------------------------ claims about the backends

\* the latest call was a Retrieve that read bytes back from the medium
ReadBack == res.op = "Retrieve" /\ res.hasRead

\* C2: Retrieve fails closed on integrity errors: whenever the SHA-256 hex
\* digest of the bytes read back from the medium differs from ref.Checksum,
\* Retrieve returns an error and no data bytes.
C2_RetrieveFailsClosed ==
  (ReadBack /\ ChecksumOf(res.read) # res.ref.checksum)
    => (res.err # "" /\ res.data = <<>>)

\* a Retrieve on the object store, of a Reference whose checksum the caller
\* changed after Store, read the stored bytes back and was refused
C2_Witness ==
  /\ kind = "s3"
  /\ ReadBack
  /\ res.ref.checksum = DeadBeef
  /\ res.read \in Blobs
  /\ res.err = "checksum"
  /\ res.data = <<>>

\* the latest call was a Retrieve of the Reference the most recent successful
\* Store of triple t returned, answered by a medium and transport that work
RetrievedLatest(t) ==
  /\ allOk
  /\ res.op = "Retrieve"
  /\ res.ref = lastStore[t].ref
  /\ ~res.fault

\* C3: after any sequence of successful Store calls on one backend, Retrieve of
\* the Reference returned by the most recent Store for a (traceID, spanID,
\* attrKey) triple returns the data passed to that Store; a later Store to the
\* same triple replaces the earlier content.
C3_LatestStoreRoundTrip ==
  \A t \in DOMAIN lastStore :
    RetrievedLatest(t) => (res.err = "" /\ res.data = lastStore[t].data)

\* the scheme prefix of the active backend's URIs
OwnPrefix == IF kind = "s3" THEN S3Prefix ELSE FsPrefix

\* C4: a Reference is never resolved against a backend whose scheme does not
\* match its URI: Retrieve of a Reference whose URI does not carry the
\* backend's own scheme prefix fails, returns no bytes and does not touch the
\* medium.
C4_SchemeChecked ==
  (res.op = "Retrieve" /\ ~HasPrefix(res.ref.uri, OwnPrefix))
    => (res.err # "" /\ res.data = <<>> /\ res.requests = 0 /\ ~res.hasRead)

\* C7: object keys are collision-free per attribute key: the latest Stores of
\* two distinct attrKey values under the same traceID and spanID returned
\* distinct URIs and wrote distinct objects, and each Reference retrieves its
\* own data.
C7_DistinctKeysStoredApart ==
  \A t1 \in DOMAIN lastStore :
    /\ \A t2 \in DOMAIN lastStore :
         (t1[1] = t2[1] /\ t1[2] = t2[2] /\ t1[3] # t2[3])
           => /\ lastStore[t1].ref.uri # lastStore[t2].ref.uri
              /\ ObjectOf(t1) # ObjectOf(t2)
    /\ ((\A t2 \in DOMAIN lastStore : t1[1] = t2[1] /\ t1[2] = t2[2])
          /\ RetrievedLatest(t1))
         => (res.err = "" /\ res.data = lastStore[t1].data)

\* the latest call was a Store on the object store
S3Stored == kind = "s3" /\ res.op = "Store"

\* C8: object-store Store fails on any status >= 300 and on any transport
\* error, and every failure returns the zero Reference with the error.
C8_StoreFailureZeroReference ==
  S3Stored =>
    /\ (res.requests > 0 /\ (res.rtErr # "" \/ res.status >= 300)) => res.err # ""
    /\ res.err # "" => res.ref = ZeroReference

\* a PUT answered 300 made Store fail with the zero Reference
C8_Witness ==
  /\ S3Stored
  /\ res.requests > 0
  /\ res.status = 300
  /\ res.err = "status"
  /\ res.ref = ZeroReference

Committed(path) ==
  IF path \in DOMAIN lastPut /\ lastPut[path] # <<>>
    THEN {lastStore[lastPut[path]].data}
    ELSE {}

\* the complete content of the Store that was writing the file during the
\* latest Retrieve
Incoming(path) ==
  IF overlap.pc # "idle"
       /\ FsPath(BasePath, overlap.triple[1], overlap.triple[2], overlap.triple[3]) = path
    THEN {overlap.data}
    ELSE {}

\* C21: atomic visibility on the filesystem backend: for any interleaving of a
\* Store and a Retrieve on the same key, the bytes the Retrieve reads from the
\* medium are either the complete previous content or the complete new
\* content, never a partially written file or a mix of the two.
C21_AtomicVisibility ==
  (kind = "filesystem" /\ ReadBack) =>
    LET path == FsRetrievePath(BasePath, res.ref)
    IN  res.read \in Committed(path) \cup Incoming(path)

\* a Retrieve ran while a Store to the same file had written one of its two
\* bytes, and read the complete content of the Store before
C21_Witness ==
  /\ kind = "filesystem"
  /\ ReadBack
  /\ overlap.pc = "writing"
  /\ overlap.tmp # <<>>
  /\ Len(overlap.tmp) < Len(overlap.data)
  /\ Incoming(FsRetrievePath(BasePath, res.ref)) = {overlap.data}
  /\ res.read \in Committed(FsRetrievePath(BasePath, res.ref))
  /\ res.read # overlap.data
  /\ res.err = ""
  /\ res.data = res.read

\* no call writes a field of the backend or of the envelope
FieldsNeverWritten == [][s3' = s3 /\ envelope' = envelope]_vars

\* every Store call so far was made with a key of its own and succeeded
DistinctKeysStored == allOk /\ Cardinality(DOMAIN lastStore) = nOps

\* C22: concurrent calls on one backend or envelope instance do not interfere:
\* no call writes the instance's fields after construction, and for any
\* interleaving of Store calls on distinct keys each returned Reference
\* retrieves exactly the data of its own call.
C22_ConcurrentStoresDoNotInterfere ==
  /\ FieldsNeverWritten
  /\ [](\A t \in DOMAIN lastStore :
          (DistinctKeysStored /\ RetrievedLatest(t))
            => (res.err = "" /\ res.data = lastStore[t].data))

\* C23: Close is idempotent and local: on the object-store backend, Close
\* called any number of times, before or after any Store or Retrieve, returns
\* nil and issues no HTTP request; the processor's Shutdown returns the
\* backend's Close result, and returns nil without calling Close when no
\* backend was ever started.
C23_CloseIdempotentAndLocal ==
  /\ res.op = "Close" => (res.err = "" /\ res.requests = 0)
  /\ shut.called =>
       /\ shut.closed = (shut.backend # "none")
       /\ shut.err = (IF shut.closed THEN shut.closeErr ELSE "")
       /\ shut.backend = "s3" => (shut.err = "" /\ shut.requests = 0)

\* the second Close on an object-store backend that had stored a value
\* returned nil; a Shutdown before it had closed the backend as well
C23_Witness ==
  /\ kind = "s3"
  /\ res.op = "Close"
  /\ res.err = ""
  /\ conn.closes = MaxCloses
  /\ emitted # <<>>
  /\ shut.called
  /\ shut.closed

\* a Shutdown of a processor whose Start never set a backend returned nil
C23_WitnessNoBackend ==
  /\ shut.called
  /\ shut.backend = "none"
  /\ ~shut.closed
  /\ shut.err = ""
  /\ ctRes = "backend"

\* the tool was given all of an emitted Reference, the processor's base path
\* and a medium that works
GotOffloaded ==
  /\ got.called
  /\ got.whole
  /\ Len(got.args) = 2
  /\ got.medium = "ok"

\* C24: end-to-end encrypted retrieval: for a value offloaded by the processor
\* to the filesystem backend with encryption enabled, the retrieval tool given
\* the emitted Reference and the same key retrieves the blob, passes the
\* checksum verification, decrypts it and outputs the original plaintext; when
\* encrypted is true and no key is supplied it fails with an error and outputs
\* no content.
C24_EndToEndRetrieval ==
  /\ (GotOffloaded /\ got.entry.sealed /\ got.hexKey = HexEncodeToString(envelope.key))
       => (got.err = "" /\ got.out = got.entry.plaintext \o <<10>>)
  /\ (got.called /\ got.whole /\ got.entry.ref.encrypted /\ got.hexKey = <<>>)
       => (got.err # "" /\ got.out = <<>>)

\* the tool printed the two bytes of an attribute that the processor had
\* encrypted and stored under a key whose JSON text has escapes
C24_Witness ==
  /\ GotOffloaded
  /\ got.entry.sealed
  /\ got.entry.key = KeyAmp
  /\ got.hexKey = HexEncodeToString(envelope.key)
  /\ got.err = ""
  /\ got.out = <<7, 8, 10>>

\* the tool was given no key for an encrypted Reference and printed nothing
C24_WitnessNoKey ==
  /\ GotOffloaded
  /\ got.entry.ref.encrypted
  /\ got.hexKey = <<>>
  /\ got.err = "key"
  /\ got.out = <<>>

\* the configuration is one of those the claim says Validate refuses
Refused(c) ==
  \/ c.backend # "filesystem" /\ c.backend # "s3"
  \/ c.backend = "filesystem" /\ c.basePath = <<>>
  \/ c.backend = "s3" /\ c.s3.bucket = <<>>
  \/ c.mode \notin {"replace_with_ref", "drop", "keep_and_ref"}
  \/ c.keys = <<>>
  \/ c.crypto.enable /\ c.crypto.keySource # "env" /\ c.crypto.keySource # "static"

\* C25: Config.Validate returns an error if and only if the backend is neither
\* filesystem nor s3, or the backend is filesystem with an empty base_path, or
\* the backend is s3 with an empty bucket, or the mode is not one of
\* replace_with_ref, drop, keep_and_ref, or vault.keys is empty, or crypto is
\* enabled with a key_source other than env or static; newProcessor returns no
\* processor exactly when Validate fails.
C25_ValidateExactly ==
  /\ made.validated => ((made.validateErr # "") <=> Refused(cfg))
  /\ made.built =>
       /\ made.nil <=> Refused(cfg)
       /\ made.nil <=> (made.err # "")
       /\ made.validated => (made.nil <=> (made.validateErr # ""))

\* Validate refused a configuration for its empty vault.keys alone, and
\* newProcessor returned no processor for it
C25_Witness ==
  /\ made.validated
  /\ made.built
  /\ made.validateErr = "keys"
  /\ made.nil
  /\ cfg.backend = "s3"
  /\ cfg.s3.bucket # <<>>
  /\ cfg.basePath = <<>>
  /\ cfg.crypto.enable
  /\ cfg.crypto.keySource = "env"

\* Validate accepted a configuration with encryption off and no key source,
\* and newProcessor returned the processor
C25_WitnessAccepted ==
  /\ made.validated
  /\ made.built
  /\ made.validateErr = ""
  /\ ~made.nil
  /\ made.keySet = {KeyP}
  /\ ~cfg.crypto.enable
  /\ cfg.crypto.keySource = ""
  /\ cfg.sizeThreshold = -1

\* ------------------------------------------------ claims about the Envelope

\* C10: encryption round trip: under an envelope with a valid key, Encrypt of
\* a non-empty byte sequence b succeeds, and Decrypt of its output under the
\* same envelope returns exactly b with no error.
C10_EncryptDecryptRoundTrip ==
  /\ (cres.op = "Encrypt" /\ cres.input # <<>>) => cres.err = ""
  /\ (cres.op = "Decrypt" /\ cres.plain # <<>>)
       => (cres.err = "" /\ cres.out = cres.plain)

\* a three-byte plaintext came back from Decrypt, out of a blob that is longer
\* by the nonce and the tag and does not show it
C10_Witness ==
  /\ cres.op = "Decrypt"
  /\ Len(cres.plain) = 3
  /\ Len(cres.input) = NonceSize + 3 + TagSize
  /\ SubSeq(cres.input, NonceSize + 1, NonceSize + 3) # cres.plain
  /\ cres.out = cres.plain
  /\ cres.err = ""

\* C11: Decrypt fails closed: for a blob shorter than the 12-byte nonce, for a
\* blob produced under a different key, and for a corrupted or truncated blob,
\* Decrypt returns an error and no plaintext, never partial plaintext.
C11_DecryptFailsClosed ==
  /\ (cres.op = "DecryptWrongKey" /\ cres.by.key # envelope.key)
       => (cres.err # "" /\ cres.out = <<>>)
  /\ cres.op = "DecryptCorrupted" => (cres.err # "" /\ cres.out = <<>>)

\* a blob of a two-byte plaintext with one ciphertext byte changed was refused
C11_Witness ==
  /\ cres.op = "DecryptCorrupted"
  /\ Len(cres.plain) = 2
  /\ Len(cres.input) = NonceSize + 2 + TagSize
  /\ SubSeq(cres.input, 1, NonceSize) \in Nonces
  /\ cres.err = "decrypt"
  /\ cres.out = <<>>

\* a blob cut down to less than a nonce was refused before gcm.Open
C11_WitnessShort ==
  /\ cres.op = "DecryptCorrupted"
  /\ Len(cres.input) = NonceSize - 1
  /\ cres.err = "short"

\* a blob was refused by an envelope whose key is not the one that sealed it
C11_WitnessWrongKey ==
  /\ cres.op = "DecryptWrongKey"
  /\ cres.by.key # envelope.key
  /\ cres.plain # <<>>
  /\ cres.err = "decrypt"

NonceThenSealed ==
  /\ Len(cres.out) = NonceSize + Len(cres.plain) + TagSize
  /\ SubSeq(cres.out, 1, NonceSize) = cres.nonce
  /\ Open(cres.by.key, cres.nonce, DropFirst(cres.out, NonceSize)).err = ""

C14_SignVerify ==
  (cres.op = "VerifyMetadata" /\ cres.by.hmacSecret = envelope.hmacSecret)
    => /\ cres.ok \in BOOLEAN
       /\ cres.err = ""
       /\ cres.ok <=> cres.input = cres.plain

\* the signature of "ab" was refused for "ab}}" by an envelope with the
\* signer's secret and another key
C14_Witness ==
  /\ cres.op = "VerifyMetadata"
  /\ cres.by.hmacSecret = envelope.hmacSecret
  /\ cres.by.key # envelope.key
  /\ cres.plain = <<97, 98>>
  /\ cres.input = <<97, 98, 125, 125>>
  /\ Len(cres.out) = 2 * DigestSize
  /\ ~cres.ok

Emitted == {emitted[i] : i \in 1..Len(emitted)}

\* C1: the checksum of every Reference the processor emits, with encryption
\* enabled or disabled, is the SHA-256 hex digest of the original attribute
\* value, never of the ciphertext written to the backend.
C1_ChecksumOfPlaintext ==
  \A e \in Emitted : e.ref.checksum = ChecksumOf(e.plaintext)

\* C5: size_bytes of every Reference the processor emits, with encryption
\* enabled or disabled, is the byte length of the original attribute value.
C5_SizeOfPlaintext ==
  \A e \in Emitted : e.ref.size = Len(e.plaintext)

\* the bytes written are what Envelope.Encrypt returns for the value under
\* the processor's envelope
IsEncryptOutput(e) ==
  /\ envelope # NoEnvelope
  /\ \E nonces \in NonceDraws : \E i \in 1..MaxOffloads :
       e.written = Envelope_Encrypt(envelope, e.plaintext, nonces[i]).out

\* C6: for span attributes and span-event attributes alike, the encrypted
\* flag of an emitted Reference is true if and only if the bytes written to
\* the backend are the output of Envelope.Encrypt rather than the raw value;
\* the backend's Store itself returned encrypted = false.
C6_EncryptedFlag ==
  \A e \in Emitted :
    /\ e.ref.encrypted <=> IsEncryptOutput(e)
    /\ ~e.ref.encrypted => e.written = e.plaintext
    /\ e.stored.encrypted = FALSE
    /\ e.target \in DOMAIN objects

\* one batch made the processor emit a Reference for a span attribute and one
\* for an event attribute, both for encrypted blobs that are in the medium
C6_Witness ==
  /\ \E e \in Emitted : e.event /\ e.ref.encrypted /\ objects[e.target] = e.written
  /\ \E e \in Emitted : ~e.event /\ e.ref.encrypted /\ e.written # e.plaintext

\* a key string of 64 hex digits, of either case
ValidHex32(k) ==
  /\ Len(k) = 64
  /\ \A i \in 1..Len(k) : k[i] \in (48..57) \cup (97..102) \cup (65..70)

\* C13: NewEnvelope succeeds if and only if the key string is valid hex that
\* decodes to exactly 32 bytes; in every other case it returns an error and no
\* envelope, and the processor's Start then fails instead of running without
\* encryption.
C13_NewEnvelopeOnly32Bytes ==
  /\ \A k \in HexKeys :
       LET r == NewEnvelope(k, HmacSecret)
       IN  /\ r.err = "" <=> ValidHex32(k)
           /\ r.err = "" => Len(r.env.key) = 32
           /\ r.err # "" => r.env = NoEnvelope
  /\ (kind # "none" /\ cfg.crypto.enable)
       => /\ started <=> ValidHex32(hexKey)
          /\ started => (envelope # NoEnvelope /\ Len(envelope.key) = 32)
          /\ ~started => (envelope = NoEnvelope /\ ctRes # "")
  /\ (nBatches > 0 /\ cfg.crypto.enable) => envelope # NoEnvelope

\* Start failed on a key string that is valid hex of 16 bytes, a key AES
\* itself would take
C13_Witness ==
  /\ kind # "none"
  /\ cfg.crypto.enable
  /\ Len(hexKey) = 32
  /\ HexDecodeString(hexKey).err = ""
  /\ ~started
  /\ ctRes = "length"

\* the configured vault keys
KeySet == {cfg.keys[i] : i \in 1..Len(cfg.keys)}

\* The attribute maps of the latest batch, of spans and of span events: each
\* as ConsumeTraces received it (before) and as it went to the next consumer
\* (after), with the span id and the key prefix its offloads are stored under.
Places ==
  UNION {
    {[before |-> received[k].attrs, after |-> forwarded[k].attrs,
      spanID |-> IDString(received[k].spanID), pre |-> <<>>]}
      \cup
    {[before |-> received[k].events[i], after |-> forwarded[k].events[i],
      spanID |-> IDString(received[k].spanID),
      pre |-> EventKeyPrefix(IDString(received[k].spanID), i - 1)] :
       i \in 1..Len(received[k].events)} :
    k \in 1..Len(forwarded)}

\* the map has the key k
Has(attrs, k) == \E i \in 1..Len(attrs) : attrs[i].key = k

\* the value of k in a map that has it
Get(attrs, k) == attrs[CHOOSE i \in 1..Len(attrs) : attrs[i].key = k].val

\* the successful offloads of the attribute k of a place
OffloadedAt(pl, k) ==
  {e \in Emitted : e.spanID = pl.spanID /\ e.pre = pl.pre /\ e.key = k}

\* C16: after ConsumeTraces, for every configuration and every outcome of
\* encryption and storage, the traces handed to the next consumer do not carry
\* the original content under a configured vault key, in spans and in span
\* events.
C16_NoPlaintextForwarded ==
  \A pl \in Places : \A k \in KeySet :
    (Has(pl.before, k) /\ Has(pl.after, k))
      => Get(pl.after, k) # Get(pl.before, k)

\* every attribute of the place whose key is not a vault key went on with its
\* key and value
OthersUnchanged(pl) ==
  \A i \in 1..Len(pl.before) :
    pl.before[i].key \notin KeySet
      => (Has(pl.after, pl.before[i].key)
          /\ Get(pl.after, pl.before[i].key) = pl.before[i].val)

\* C17 as stated: in replace_with_ref mode, after a successful offload the
\* matched attribute's value is the JSON serialization of the Reference
\* returned by Store (non-empty uri and checksum), and every attribute whose
\* key is not in vault.keys keeps its key and value unchanged.
C17_ReplaceWithStoreReference ==
  cfg.mode = "replace_with_ref"
    => \A pl \in Places :
         /\ OthersUnchanged(pl)
         /\ \A k \in KeySet : \A e \in OffloadedAt(pl, k) :
              /\ e.stored.uri # <<>>
              /\ e.stored.checksum # <<>>
              /\ Has(pl.after, k)
              /\ Get(pl.after, k) = StrValue(MarshalReference(e.stored))

\* C17 as amended: the value is the JSON serialization of the Reference
\* returned by Store with its encrypted flag set to true when the processor
\* encrypts.
C17_ReplaceWithReference ==
  cfg.mode = "replace_with_ref"
    => \A pl \in Places :
         /\ OthersUnchanged(pl)
         /\ \A k \in KeySet : \A e \in OffloadedAt(pl, k) :
              /\ e.stored.uri # <<>>
              /\ e.stored.checksum # <<>>
              /\ e.ref = [e.stored EXCEPT !.encrypted = (envelope # NoEnvelope)]
              /\ Has(pl.after, k)
              /\ Get(pl.after, k) = StrValue(MarshalReference(e.ref))

\* the batch's attribute "m", not a vault key, and a vault attribute
\* offloaded with encryption in replace_with_ref mode
C17_Witness ==
  /\ cfg.mode = "replace_with_ref"
  /\ envelope # NoEnvelope
  /\ \E pl \in Places :
       /\ Has(pl.before, KeyM)
       /\ Has(pl.after, KeyM)
       /\ OffloadedAt(pl, KeyP) # {}
       /\ Get(pl.after, KeyP) # Get(pl.before, KeyP)

\* C18: in drop mode, after a successful offload of attribute k the span no
\* longer has attribute k and has attribute k + ".vault_ref" whose value is
\* the JSON serialization of the Reference returned by Store (here: as the
\* processor emits it, the encrypted flag set when it encrypts).
C18_DropWithReference ==
  cfg.mode = "drop"
    => \A pl \in Places : \A k \in KeySet : \A e \in OffloadedAt(pl, k) :
         /\ ~Has(pl.after, k)
         /\ Has(pl.after, k \o VaultRefSuffix)
         /\ e.ref = [e.stored EXCEPT !.encrypted = (envelope # NoEnvelope)]
         /\ Get(pl.after, k \o VaultRefSuffix) = StrValue(MarshalReference(e.ref))

\* C19: in keep_and_ref mode, after a successful offload of attribute k the
\* span still has attribute k with its original value unchanged and
\* additionally has attribute k + ".vault_ref" holding the reference JSON.
C19_KeepAndRef ==
  cfg.mode = "keep_and_ref"
    => \A pl \in Places : \A k \in KeySet : \A e \in OffloadedAt(pl, k) :
         /\ Has(pl.after, k)
         /\ Get(pl.after, k) = Get(pl.before, k)
         /\ Get(pl.after, k) = StrValue(e.plaintext)
         /\ Has(pl.after, k \o VaultRefSuffix)
         /\ Get(pl.after, k \o VaultRefSuffix) = StrValue(MarshalReference(e.ref))

\* the offloads tried for the attribute k of a place
TriesAt(pl, k) ==
  {j \in 1..Len(tried) :
     tried[j].spanID = pl.spanID /\ tried[j].pre = pl.pre /\ tried[j].key = k}

\* C20: an attribute is offloaded if and only if its key is in vault.keys and
\* the byte length of its value is at least size_threshold: Store is called
\* (once) for exactly these attributes, unless Encrypt failed for the value
\* (the storeCalled of its try is then false), and a reference is emitted for each
\* whose Store succeeds; a value smaller than the threshold is left in place
\* unchanged, no Store call is made for it and no reference attribute is
\* added, in every mode.
C20_SizeThreshold ==
  \A pl \in Places : \A i \in 1..Len(pl.before) :
    LET a == pl.before[i]
        eligible == a.key \in KeySet /\ Len(Str(a.val)) >= cfg.sizeThreshold
    IN  /\ eligible <=> (\E j \in TriesAt(pl, a.key) :
                           tried[j].storeCalled \/ envelope # NoEnvelope)
        /\ OffloadedAt(pl, a.key) # {} => eligible
        /\ eligible
             => /\ Cardinality(TriesAt(pl, a.key)) = 1
                /\ \A j \in TriesAt(pl, a.key) :
                     /\ tried[j].plaintext = Str(a.val)
                     /\ tried[j].ok <=> OffloadedAt(pl, a.key) # {}
        /\ ~eligible => TriesAt(pl, a.key) = {}
        /\ (a.key \in KeySet /\ ~eligible)
             => /\ Has(pl.after, a.key)
                /\ Get(pl.after, a.key) = a.val
                /\ ~Has(pl.after, a.key \o VaultRefSuffix)

\* an offload of the attribute k of the place was tried and failed, at Encrypt
\* or at Store
FailedAt(pl, k) == \E j \in TriesAt(pl, k) : ~tried[j].ok

\* the failed attributes keep their value, and the place gets no attribute
\* key + ".vault_ref" for them
FailedLeftAlone ==
  \A pl \in Places : \A i \in 1..Len(pl.before) :
    LET a == pl.before[i]
        refKey == a.key \o VaultRefSuffix
    IN  FailedAt(pl, a.key)
          => /\ OffloadedAt(pl, a.key) = {}
             /\ Has(pl.after, a.key)
             /\ Get(pl.after, a.key) = a.val
             /\ Has(pl.after, refKey) => Has(pl.before, refKey)

\* every attribute with a vault key and a value of at least the threshold
\* was tried, whatever failed before it in the batch
AllTried ==
  \A pl \in Places : \A i \in 1..Len(pl.before) :
    (pl.before[i].key \in KeySet
     /\ Len(Str(pl.before[i].val)) >= cfg.sizeThreshold)
      => TriesAt(pl, pl.before[i].key) # {}

\* the batch went to the next consumer, span for span, and ConsumeTraces
\* returned what the next consumer returned
HandedOn ==
  nBatches > 0
    => /\ Len(forwarded) = Len(received)
       /\ \A k \in 1..Len(received) :
            /\ forwarded[k].spanID = received[k].spanID
            /\ Len(forwarded[k].events) = Len(received[k].events)
       /\ ctRes \in {"", "next"}

\* C26: offload failure is isolated to the attribute: when Encrypt or Store
\* fails for a matched attribute, that attribute keeps its original value and
\* no reference attribute is added for it in any mode, the remaining
\* attributes and spans are still processed, and ConsumeTraces still hands
\* the batch to the next consumer exactly once and returns that consumer's
\* result.
C26_OffloadFailureIsolated ==
  /\ FailedLeftAlone
  /\ AllTried
  /\ HandedOn

====
